---- MODULE Spec2Model ----
(***************************************************************************)
(* Model of the data-quality and profiling engine of the dataset           *)
(* management backend: services/quality_analyzer.py,                       *)
(* services/data_profiler.py and services/csv_parser.py.                   *)
(*                                                                         *)
(* A table is a record [rows, cols]: cols is the sequence of columns, each *)
(* a sequence of `rows` cells.  A file holds the table of its fields, and  *)
(* read_csv makes the DataFrame the entry points work on.  Floating values *)
(* are exact rationals in lowest terms (or inf / nan / None); round(x, 2)  *)
(* is the nearest hundredth, ties to even.                                 *)
(***************************************************************************)
EXTENDS Integers, Sequences, FiniteSets, TLC

VARIABLES file, pc, arg, ret

vars == <<file, pc, arg, ret>>

(***************************************************************************)
(* Bounds of the model.                                                    *)
(***************************************************************************)
MaxCols == 2
MaxCells == 4

(***************************************************************************)
(* Floating values.                                                        *)
(***************************************************************************)
RECURSIVE GCD(_, _)
GCD(a, b) == IF b = 0 THEN a ELSE GCD(b, a % b)

Abs(n) == IF n < 0 THEN -n ELSE n

Fin(n, d) ==
    LET g == GCD(Abs(n), d)
    IN  [f |-> "fin", n |-> n \div g, d |-> d \div g]

FInt(n) == [f |-> "fin", n |-> n, d |-> 1]
FInf(s) == [f |-> "inf", n |-> s, d |-> 1]
NaN == [f |-> "nan", n |-> 0, d |-> 1]
None == [f |-> "none", n |-> 0, d |-> 1]

IsFin(x) == x.f = "fin"
NonFinite(x) == x.f \in {"inf", "nan"}

\* Nearest integer to n / d (d > 0), ties to the even integer.
RoundHalfEven(n, d) ==
    LET q == n \div d
        r == n % d
    IN  IF 2 * r < d THEN q
        ELSE IF 2 * r > d THEN q + 1
        ELSE IF q % 2 = 0 THEN q ELSE q + 1

\* round(n / d, 2)
Round2(n, d) == Fin(RoundHalfEven(100 * n, d), 100)

\* round(x, 2) of a floating value: inf and nan are returned unchanged.
Round2F(x) == IF IsFin(x) THEN Round2(x.n, x.d) ELSE x

FNeg(x) ==
    IF x.f = "fin" THEN Fin(-x.n, x.d)
    ELSE IF x.f = "inf" THEN FInf(-x.n)
    ELSE x

FAdd(x, y) ==
    IF x.f = "nan" \/ y.f = "nan" THEN NaN
    ELSE IF x.f = "inf" /\ y.f = "inf" THEN (IF x.n = y.n THEN x ELSE NaN)
    ELSE IF x.f = "inf" THEN x
    ELSE IF y.f = "inf" THEN y
    ELSE Fin(x.n * y.d + y.n * x.d, x.d * y.d)

FSub(x, y) == FAdd(x, FNeg(y))

\* (kn / kd) * x for a multiplier kn / kd >= 0
FScale(kn, kd, x) ==
    IF x.f = "nan" THEN NaN
    ELSE IF x.f = "inf" THEN (IF kn = 0 THEN NaN ELSE x)
    ELSE Fin(kn * x.n, kd * x.d)

FLt(x, y) ==
    IF x.f = "nan" \/ y.f = "nan" THEN FALSE
    ELSE IF x.f = "inf" THEN x.n < 0 /\ ~(y.f = "inf" /\ y.n < 0)
    ELSE IF y.f = "inf" THEN y.n > 0
    ELSE x.n * y.d < y.n * x.d

FLe(x, y) == FLt(x, y) \/ (x.f # "nan" /\ x = y)

(***************************************************************************)
(* Cells and series.                                                       *)
(***************************************************************************)
NullCell == [k |-> "null", v |-> 0]
NumCell(n) == [k |-> "num", v |-> n]
InfCell == [k |-> "inf", v |-> 1]
EmptyStr == [k |-> "text", v |-> 0]
TextCell == [k |-> "text", v |-> 1]

Cells == {NullCell, NumCell(1), NumCell(2), InfCell, EmptyStr, TextCell}

ColumnNames == <<"a", "b", "c", "d", "e", "f", "g", "h">>

isnull(c) == c.k = "null"
IsStr(c) == c.k = "text"

RECURSIVE SeqSum(_)
SeqSum(s) == IF s = <<>> THEN 0 ELSE Head(s) + SeqSum(Tail(s))

Count(s, P(_)) == Cardinality({i \in 1..Len(s) : P(s[i])})

Range(s) == {s[i] : i \in 1..Len(s)}

head(s, n) == SubSeq(s, 1, IF Len(s) < n THEN Len(s) ELSE n)

\* the sequence f[1], ..., f[n]
List(f, n) == SubSeq(f, 1, n)

\* str(series.dtype) of a column
dtype(s) ==
    IF Len(s) = 0 \/ \E i \in 1..Len(s) : IsStr(s[i]) THEN "object"
    ELSE IF \A i \in 1..Len(s) : s[i].k = "num" THEN "int64"
    ELSE "float64"

is_numeric_dtype(s) == dtype(s) # "object"

\* pd.to_numeric(series, errors='coerce') of one cell
to_numeric(c) ==
    IF c.k = "num" THEN FInt(c.v)
    ELSE IF c.k = "inf" THEN FInf(c.v)
    ELSE NaN

\* pd.to_numeric(series, errors='coerce').dropna(), in column order
NumericSeries(s) ==
    LET keep(c) == to_numeric(c).f # "nan"
        kept == SelectSeq(s, keep)
    IN  List([i \in 1..Len(kept) |-> to_numeric(kept[i])], Len(kept))

dropna(s) == LET keep(c) == ~isnull(c) IN SelectSeq(s, keep)

nunique(s) == Cardinality(Range(dropna(s)))

\* One field as pd.read_csv reads it (default na_values): a zero-length field
\* is a missing value.
ReadField(c) == IF c = EmptyStr THEN NullCell ELSE c

\* The lines pd.read_csv keeps (skip_blank_lines): a line holding a single
\* zero-length field is a blank line.
KeptRows(table) ==
    LET kept(r) == ~(Len(table.cols) = 1 /\ table.cols[1][r] = EmptyStr)
    IN  SelectSeq(List([r \in 1..table.rows |-> r], table.rows), kept)

\* read_csv with na_filter off: every field as written
read_csv_no_na_filter(table) == table

\* pd.read_csv(file_path): the frame loaded from the fields of a file
read_csv(table) ==
    LET rows == KeptRows(table)
        n == Len(rows)
        column(i) == List([r \in 1..n |-> ReadField(table.cols[i][rows[r]])], n)
    IN  [rows |-> n,
         cols |-> List([i \in 1..Len(table.cols) |-> column(i)], Len(table.cols))]

(***************************************************************************)
(* Order statistics of a numeric series (a sequence of floating values).   *)
(***************************************************************************)
\* the sorted values of t from position lo to position hi: the k-th value is
\* the one with fewer than k values below it and at least k values up to it
RECURSIVE OrderStatistics(_, _, _)
OrderStatistics(t, lo, hi) ==
    LET below(v) == Cardinality({i \in 1..Len(t) : FLt(t[i], v)})
        upto(v) == Cardinality({i \in 1..Len(t) : FLe(t[i], v)})
        mid == (lo + hi) \div 2
    IN  IF lo > hi THEN <<>>
        ELSE IF lo = hi THEN <<CHOOSE v \in Range(t) : below(v) < lo /\ lo <= upto(v)>>
        ELSE OrderStatistics(t, lo, mid) \o OrderStatistics(t, mid + 1, hi)

\* series.sort_values()
sort_values(s) == CHOOSE r \in {OrderStatistics(t, 1, Len(t)) : t \in {s}} : TRUE

RECURSIVE FSum(_)
FSum(s) == IF s = <<>> THEN FInt(0) ELSE FAdd(Head(s), FSum(Tail(s)))

AllFinite(s) == \A i \in 1..Len(s) : IsFin(s[i])

SeriesMin(s) == sort_values(s)[1]
SeriesMax(s) == sort_values(s)[Len(s)]
SeriesMean(s) == FScale(1, Len(s), FSum(s))

SeriesMedian(s) ==
    LET t == sort_values(s)
        n == Len(s)
    IN  IF n % 2 = 1 THEN t[(n + 1) \div 2]
        ELSE FScale(1, 2, FAdd(t[n \div 2], t[n \div 2 + 1]))

\* Sample variance (ddof = 1) of a series of at least two values; nan as soon
\* as a value is infinite (inf - inf in the deviations).
SeriesVar(s) ==
    LET n == Len(s)
        sq == List([i \in 1..n |-> Fin(s[i].n * s[i].n, s[i].d * s[i].d)], n)
        sum == FSum(s)
    IN  IF ~AllFinite(s) THEN NaN
        ELSE FScale(1, n * (n - 1),
                    FSub(FScale(n, 1, FSum(sq)), Fin(sum.n * sum.n, sum.d * sum.d)))


\* floor(sqrt(n)) by bisection: lo * lo <= n < hi * hi
RECURSIVE Bisect(_, _, _)
Bisect(n, lo, hi) ==
    IF hi - lo <= 1 THEN lo
    ELSE LET mid == (lo + hi) \div 2
         IN  IF mid * mid <= n THEN Bisect(n, mid, hi) ELSE Bisect(n, lo, mid)

FloorSqrt(n) == Bisect(n, 0, n + 1)

\* The square root of a variance, exact: a rational when the variance is a
\* perfect square, else the tagged value [f |-> "sqrt"] of that variance.
FSqrt(x) ==
    IF ~IsFin(x) THEN x
    ELSE IF FloorSqrt(x.n) * FloorSqrt(x.n) = x.n /\ FloorSqrt(x.d) * FloorSqrt(x.d) = x.d
    THEN Fin(FloorSqrt(x.n), FloorSqrt(x.d))
    ELSE [f |-> "sqrt", n |-> x.n, d |-> x.d]

\* round(sqrt(x), 2) for a variance x: the nearest hundredth to the root
Round2Sqrt(x) ==
    IF ~IsFin(x) THEN x
    ELSE Fin((FloorSqrt((40000 * x.n) \div x.d) + 1) \div 2, 100)

\* The behaviours of the numerics library when a linear interpolation has an
\* infinite operand: it yields nan, inf, or the lower order statistic when the
\* position is exact.
NonFiniteModes == {"nan", "inf", "lower"}

\* the quantile qn / qd of the sorted values t
QuantileOfSorted(t, qn, qd, nf) ==
    LET n == Len(t)
        lo == ((n - 1) * qn) \div qd
        rem == ((n - 1) * qn) % qd
        a == t[lo + 1]
        b == t[IF lo + 2 <= n THEN lo + 2 ELSE n]
    IN  IF IsFin(a) /\ IsFin(b) THEN FAdd(a, FScale(rem, qd, FSub(b, a)))
        ELSE IF nf = "inf" THEN b
        ELSE IF nf = "lower" /\ rem = 0 THEN a
        ELSE NaN

\* quantile without interpolation: the order statistic at or below the position
quantile_lower(s, qn, qd, nf) == sort_values(s)[((Len(s) - 1) * qn) \div qd + 1]

\* series.quantile(qn / qd), linear interpolation between order statistics
quantile(s, qn, qd, nf) == QuantileOfSorted(sort_values(s), qn, qd, nf)

(***************************************************************************)
(* services/quality_analyzer.py                                            *)
(***************************************************************************)
IqrExamples == 10
LowCompleteness == 50
LowCompletenessNamed == 3

IsEmptyStr(c) == c = EmptyStr
notna(c) == ~isnull(c)

\* IqrOutliers counting the values on the bounds as outliers
IqrOutliersInclusive(numeric_series, Q1, Q3, mn, md) ==
    LET IQR == FSub(Q3, Q1)
        lower_bound == FSub(Q1, FScale(mn, md, IQR))
        upper_bound == FAdd(Q3, FScale(mn, md, IQR))
        isout(x) == FLe(x, lower_bound) \/ FLe(upper_bound, x)
        outliers == SelectSeq(numeric_series, isout)
    IN  [outlier_count |-> Len(outliers),
         outlier_percentage |-> Round2(100 * Len(outliers), Len(numeric_series)),
         lower_bound |-> lower_bound,
         upper_bound |-> upper_bound,
         outliers |-> head(outliers, IqrExamples)]

\* detect_outliers_iqr from the quartiles Q1 and Q3 on: the bounds, the mask
\* and the returned record
IqrOutliers(numeric_series, Q1, Q3, mn, md) ==
    LET IQR == FSub(Q3, Q1)
        lower_bound == FSub(Q1, FScale(mn, md, IQR))
        upper_bound == FAdd(Q3, FScale(mn, md, IQR))
        isout(x) == FLt(x, lower_bound) \/ FLt(upper_bound, x)
        outliers == SelectSeq(numeric_series, isout)
    IN  [outlier_count |-> Len(outliers),
         outlier_percentage |-> Round2(100 * Len(outliers), Len(numeric_series)),
         lower_bound |-> lower_bound,
         upper_bound |-> upper_bound,
         outliers |-> head(outliers, IqrExamples)]

\* AdvancedQualityAnalyzer.detect_outliers_iqr, multiplier mn / md
detect_outliers_iqr(series, mn, md, nf) ==
    LET numeric_series == NumericSeries(series)
    IN  IF Len(numeric_series) = 0
        THEN [outlier_count |-> 0, outlier_percentage |-> FInt(0),
              lower_bound |-> None, upper_bound |-> None, outliers |-> <<>>]
        ELSE IqrOutliers(numeric_series, quantile(numeric_series, 1, 4, nf),
                         quantile(numeric_series, 3, 4, nf), mn, md)

\* numeric_stats of analyze_column_quality (unrounded)
numeric_stats(valid_numeric) ==
    [min |-> SeriesMin(valid_numeric),
     max |-> SeriesMax(valid_numeric),
     mean |-> SeriesMean(valid_numeric),
     median |-> SeriesMedian(valid_numeric),
     std |-> IF Len(valid_numeric) > 1 THEN FSqrt(SeriesVar(valid_numeric)) ELSE FInt(0)]

\* The report analyze_column_quality returns from its except branch.
ColumnQualityError(column_name) ==
    [column_name |-> column_name,
     error |-> "error",
     total_values |-> 0,
     null_count |-> 0,
     completeness_percentage |-> FInt(0)]

\* completeness of a column: the share of cells neither null nor empty
Completeness(total_count, null_count, empty_string_count) ==
    IF total_count > 0
    THEN Round2(100 * (total_count - null_count - empty_string_count), total_count)
    ELSE FInt(0)

\* invalid_count: non-null values of an object column that fail numeric coercion
InvalidCount(series) ==
    IF dtype(series) = "object"
    THEN Count(series, notna) - Len(NumericSeries(series))
    ELSE 0

\* expected_type = None: no expected type, kept apart from every type string
NoExpectedType == "None"

\* the truth value of expected_type in `if expected_type and ...`: None and the
\* empty string are falsy
Truthy(expected_type) == expected_type \notin {NoExpectedType, ""}

\* type_consistent compared as text whatever the expected type
TypeConsistentExact(expected_type, inferred_type) ==
    ~(expected_type # NoExpectedType /\ expected_type # inferred_type)

\* type_consistent, lines 101-103
TypeConsistent(expected_type, inferred_type) ==
    ~(Truthy(expected_type) /\ expected_type # inferred_type)

\* AdvancedQualityAnalyzer.analyze_column_quality; raises: the body of the try
\* block raises for this column.
analyze_column_quality(df, i, expected_type, raises, nf) ==
    LET series == df.cols[i]
        column_name == ColumnNames[i]
        total_count == Len(series)
        null_count == Count(series, isnull)
        empty_string_count ==
            IF dtype(series) = "object" THEN Count(series, IsEmptyStr) ELSE 0
        inferred_type == dtype(series)
        type_consistent == TypeConsistent(expected_type, inferred_type)
        valid_numeric == NumericSeries(series)
        has_stats == is_numeric_dtype(series) /\ Len(valid_numeric) > 0
        unique_count == nunique(series)
        pct(n) == IF total_count > 0 THEN Round2(100 * n, total_count) ELSE FInt(0)
    IN  IF raises THEN ColumnQualityError(column_name)
        ELSE [column_name |-> column_name,
              total_values |-> total_count,
              null_count |-> null_count,
              null_percentage |-> pct(null_count),
              empty_string_count |-> empty_string_count,
              empty_percentage |-> pct(empty_string_count),
              invalid_count |-> InvalidCount(series),
              unique_count |-> unique_count,
              unique_percentage |-> pct(unique_count),
              completeness_percentage |->
                  Completeness(total_count, null_count, empty_string_count),
              inferred_type |-> inferred_type,
              expected_type |-> expected_type,
              type_consistent |-> type_consistent,
              type_consistency_percentage |->
                  IF type_consistent THEN FInt(100) ELSE FInt(0),
              numeric_stats |->
                  IF has_stats THEN numeric_stats(valid_numeric) ELSE None,
              outlier_info |->
                  IF has_stats THEN detect_outliers_iqr(series, 3, 2, nf) ELSE None]

\* col.get(key, default) on a column report
Get(col, key, default) == IF key \in DOMAIN col THEN col[key] ELSE default

\* AdvancedQualityAnalyzer._generate_recommendations: one record per message,
\* carrying the count or the column names the message quotes.
Recommendation(rule, count, columns) ==
    [rule |-> rule, count |-> count, columns |-> columns]

\* one rule of lines 275-297: its message when the count is positive
Rule(issues_summary, name) ==
    IF issues_summary[name] > 0
    THEN <<Recommendation(name, issues_summary[name], <<>>)>>
    ELSE <<>>

\* the four rules with the outlier rule ahead of the missing-value rule
RuleMessagesOutliersFirst(issues_summary) ==
    Rule(issues_summary, "outliers") \o Rule(issues_summary, "missing_values")
    \o Rule(issues_summary, "type_inconsistencies")
    \o Rule(issues_summary, "invalid_values")

\* the messages of the four rules on issues_summary, lines 275-297
RuleMessages(issues_summary) ==
    Rule(issues_summary, "missing_values") \o Rule(issues_summary, "outliers")
    \o Rule(issues_summary, "type_inconsistencies")
    \o Rule(issues_summary, "invalid_values")

\* the comprehension of lines 299-304 with <= 50 for < 50
LowCompletenessColsUpTo50(column_reports) ==
    LET low(col) ==
            FLe(Get(col, "completeness_percentage", FInt(100)), FInt(LowCompleteness))
        lowreports == SelectSeq(column_reports, low)
    IN  List([i \in 1..Len(lowreports) |-> lowreports[i].column_name], Len(lowreports))

\* low_completeness_cols, lines 299-304
LowCompletenessCols(column_reports) ==
    LET low(col) ==
            FLt(Get(col, "completeness_percentage", FInt(100)), FInt(LowCompleteness))
        lowreports == SelectSeq(column_reports, low)
    IN  List([i \in 1..Len(lowreports) |-> lowreports[i].column_name], Len(lowreports))

\* _generate_recommendations that adds the closing message to every list
generate_recommendations_always_good(column_reports, issues_summary) ==
    LET low_completeness_cols == LowCompletenessCols(column_reports)
    IN  RuleMessages(issues_summary)
        \o (IF low_completeness_cols # <<>>
            THEN <<Recommendation("low_completeness", 0,
                                  head(low_completeness_cols, LowCompletenessNamed))>>
            ELSE <<>>)
        \o <<Recommendation("good", 0, <<>>)>>

generate_recommendations(column_reports, issues_summary) ==
    LET low_completeness_cols == LowCompletenessCols(column_reports)
        recommendations ==
            RuleMessages(issues_summary)
            \o (IF low_completeness_cols # <<>>
                THEN <<Recommendation("low_completeness", 0,
                                      head(low_completeness_cols, LowCompletenessNamed))>>
                ELSE <<>>)
    IN  IF recommendations = <<>>
        THEN <<Recommendation("good", 0, <<>>)>>
        ELSE recommendations

\* expected_types.get(column) for a column_metadata list (None: the empty list)
ExpectedType(column_metadata, column_name) ==
    LET hits == {j \in 1..Len(column_metadata) :
                    column_metadata[j].column_name = column_name}
    IN  IF hits = {} THEN NoExpectedType
        ELSE column_metadata[CHOOSE j \in hits : \A h \in hits : h <= j].data_type

\* QualityScore with the empty table scored 0.0, as line 138 scores an empty column
QualityScoreZeroWhenNoCells(total_cells, problematic_cells) ==
    IF total_cells > 0
    THEN Round2(100 * (total_cells - problematic_cells), total_cells)
    ELSE FInt(0)

\* quality_score of a report: the share of cells not counted as problematic
QualityScore(total_cells, problematic_cells) ==
    IF total_cells > 0
    THEN Round2(100 * (total_cells - problematic_cells), total_cells)
    ELSE FInt(100)

Returned(value) == [raised |-> FALSE, exc |-> "", value |-> value]
Raised(exc) == [raised |-> TRUE, exc |-> exc, value |-> None]

\* AggregateQuality counting the columns that have outlier_info, not their
\* outliers
AggregateQualityOutlierColumns(df, column_reports) ==
    LET total_rows == df.rows
        total_columns == Len(df.cols)
        sum(key) ==
            SeqSum([i \in 1..total_columns |-> Get(column_reports[i], key, 0)])
        total_null_count == SeqSum([i \in 1..total_columns |-> column_reports[i].null_count])
        total_empty_strings == sum("empty_string_count")
        total_invalid_values == sum("invalid_count")
        total_outliers ==
            SeqSum([i \in 1..total_columns |->
                LET info == Get(column_reports[i], "outlier_info", None)
                IN  IF info # None THEN 1 ELSE 0])
        issues_by_category ==
            [missing_values |-> total_null_count + total_empty_strings,
             invalid_values |-> total_invalid_values,
             outliers |-> total_outliers,
             type_inconsistencies |->
                 Cardinality({i \in 1..total_columns :
                                 ~Get(column_reports[i], "type_consistent", TRUE)})]
        total_cells == total_rows * total_columns
        problematic_cells ==
            total_null_count + total_empty_strings + total_invalid_values
    IN  [dataset_metrics |-> [total_rows |-> total_rows,
                              total_columns |-> total_columns,
                              total_cells |-> total_cells],
         quality_score |-> QualityScore(total_cells, problematic_cells),
         issues_summary |-> issues_by_category,
         column_quality |-> column_reports,
         recommendations |-> generate_recommendations(column_reports, issues_by_category)]

\* The aggregation of generate_advanced_quality_report over the column reports
\* of a loaded table.
AggregateQuality(df, column_reports) ==
    LET total_rows == df.rows
        total_columns == Len(df.cols)
        sum(key) ==
            SeqSum([i \in 1..total_columns |-> Get(column_reports[i], key, 0)])
        total_null_count == SeqSum([i \in 1..total_columns |-> column_reports[i].null_count])
        total_empty_strings == sum("empty_string_count")
        total_invalid_values == sum("invalid_count")
        total_outliers ==
            SeqSum([i \in 1..total_columns |->
                LET info == Get(column_reports[i], "outlier_info", None)
                IN  IF info # None THEN info.outlier_count ELSE 0])
        issues_by_category ==
            [missing_values |-> total_null_count + total_empty_strings,
             invalid_values |-> total_invalid_values,
             outliers |-> total_outliers,
             type_inconsistencies |->
                 Cardinality({i \in 1..total_columns :
                                 ~Get(column_reports[i], "type_consistent", TRUE)})]
        total_cells == total_rows * total_columns
        problematic_cells ==
            total_null_count + total_empty_strings + total_invalid_values
    IN  [dataset_metrics |-> [total_rows |-> total_rows,
                              total_columns |-> total_columns,
                              total_cells |-> total_cells],
         quality_score |-> QualityScore(total_cells, problematic_cells),
         issues_summary |-> issues_by_category,
         column_quality |-> column_reports,
         recommendations |-> generate_recommendations(column_reports, issues_by_category)]

\* The report of generate_advanced_quality_report over a loaded table: every
\* column analysed, then the aggregation.
QualityReportOf(df, column_metadata, fails, nf) ==
    AggregateQuality(df,
        List([i \in 1..Len(df.cols) |->
                 analyze_column_quality(df, i,
                     ExpectedType(column_metadata, ColumnNames[i]), i \in fails, nf)],
             Len(df.cols)))

\* AdvancedQualityAnalyzer.generate_advanced_quality_report: any exception of
\* the load or of the aggregation is re-raised as ValueError.
generate_advanced_quality_report(f, column_metadata, fails, nf) ==
    IF f.status # "ok" THEN Raised("ValueError")
    ELSE Returned(QualityReportOf(read_csv(f.table), column_metadata, fails, nf))

(***************************************************************************)
(* services/data_profiler.py                                               *)
(***************************************************************************)
NumBins == 20
TopN == 15
MinFrequency == 1
VizExamples == 50

\* The dict generate_histogram_bins returns for no numeric value and from its
\* except branch.
EmptyHistogram == [bins |-> <<>>, counts |-> <<>>, min |-> None, max |-> None]

\* np.histogram(numeric_series, bins = num_bins): the num_bins + 1 edges
HistogramEdges(numeric_series, num_bins) ==
    LET lo == SeriesMin(numeric_series)
        hi == SeriesMax(numeric_series)
        first == IF lo = hi THEN FSub(lo, Fin(1, 2)) ELSE lo
        last == IF lo = hi THEN FAdd(hi, Fin(1, 2)) ELSE hi
    IN  List([i \in 1..(num_bins + 1) |->
                 FAdd(first, FScale(i - 1, num_bins, FSub(last, first)))],
             num_bins + 1)

\* the count of bin j: half-open, the last bin closed
InBin(x, bin_edges, j) ==
    /\ FLe(bin_edges[j], x)
    /\ \/ FLt(x, bin_edges[j + 1])
       \/ j = Len(bin_edges) - 1 /\ x = bin_edges[j + 1]

\* DataProfiler.generate_histogram_bins
generate_histogram_bins(series, num_bins) ==
    LET numeric_series == NumericSeries(series)
        bin_edges == HistogramEdges(numeric_series, num_bins)
        inbin(j) == LET P(x) == InBin(x, bin_edges, j) IN Count(numeric_series, P)
    IN  IF Len(numeric_series) = 0 THEN EmptyHistogram
        ELSE IF ~AllFinite(numeric_series) THEN EmptyHistogram
        ELSE [bins |-> [j \in 1..num_bins |->
                  [label |-> <<Round2F(bin_edges[j]), Round2F(bin_edges[j + 1])>>,
                   midpoint |-> Round2F(FScale(1, 2, FAdd(bin_edges[j], bin_edges[j + 1]))),
                   count |-> inbin(j),
                   lower |-> Round2F(bin_edges[j]),
                   upper |-> Round2F(bin_edges[j + 1])]],
              total_values |-> Len(numeric_series),
              min |-> Round2F(SeriesMin(numeric_series)),
              max |-> Round2F(SeriesMax(numeric_series))]

\* the distinct values of a sequence, in order of first appearance
RECURSIVE Uniq(_)
Uniq(s) ==
    IF s = <<>> THEN <<>>
    ELSE LET rest == Uniq(SubSeq(s, 1, Len(s) - 1))
             x == s[Len(s)]
         IN  IF x \in Range(rest) THEN rest ELSE Append(rest, x)

\* stable insertion by decreasing count
RECURSIVE InsertByCount(_, _)
InsertByCount(e, s) ==
    IF s = <<>> THEN <<e>>
    ELSE IF s[Len(s)].count >= e.count THEN Append(s, e)
    ELSE Append(InsertByCount(e, SubSeq(s, 1, Len(s) - 1)), s[Len(s)])

RECURSIVE SortByCount(_)
SortByCount(s) ==
    IF s = <<>> THEN <<>>
    ELSE InsertByCount(s[Len(s)], SortByCount(SubSeq(s, 1, Len(s) - 1)))

\* series.value_counts(): the distinct values with their counts, most frequent
\* first, equal counts in order of first appearance
value_counts(valid_series) ==
    LET u == Uniq(valid_series)
        n(v) == LET P(x) == x = v IN Count(valid_series, P)
    IN  SortByCount(List([i \in 1..Len(u) |-> [value |-> u[i], count |-> n(u[i])]], Len(u)))

OtherValue == [k |-> "other", v |-> 0]

\* DataProfiler.get_categorical_frequencies
get_categorical_frequencies(series, top_n, min_frequency) ==
    LET valid_series == dropna(series)
        atleast(e) == e.count >= min_frequency
        counts == head(SelectSeq(value_counts(valid_series), atleast), top_n)
        frequencies ==
            [i \in 1..Len(counts) |->
                [value |-> counts[i].value,
                 count |-> counts[i].count,
                 percentage |-> Round2(100 * counts[i].count, Len(valid_series))]]
        other_count ==
            Len(valid_series) - SeqSum([i \in 1..Len(counts) |-> counts[i].count])
    IN  IF Len(valid_series) = 0 THEN <<>>
        ELSE IF nunique(series) > top_n /\ other_count > 0
        THEN Append(frequencies,
                    [value |-> OtherValue,
                     count |-> other_count,
                     percentage |-> Round2(100 * other_count, Len(valid_series))])
        ELSE frequencies

\* MissingEntry whose present_count forgets the empty strings
MissingEntryNullOnly(df, i) ==
    LET total_rows == df.rows
        null_count == Count(df.cols[i], isnull)
        empty_count ==
            IF dtype(df.cols[i]) = "object" THEN Count(df.cols[i], IsEmptyStr) ELSE 0
        total_missing == null_count + empty_count
        missing_percentage ==
            IF total_rows > 0 THEN Fin(100 * total_missing, total_rows) ELSE FInt(0)
    IN  [column_name |-> ColumnNames[i],
         null_count |-> null_count,
         empty_count |-> empty_count,
         total_missing |-> total_missing,
         missing_percentage |-> Round2F(missing_percentage),
         present_count |-> total_rows - null_count,
         present_percentage |-> Round2F(FSub(FInt(100), missing_percentage))]

\* one entry of get_missing_values_summary
MissingEntry(df, i) ==
    LET total_rows == df.rows
        null_count == Count(df.cols[i], isnull)
        empty_count ==
            IF dtype(df.cols[i]) = "object" THEN Count(df.cols[i], IsEmptyStr) ELSE 0
        total_missing == null_count + empty_count
        missing_percentage ==
            IF total_rows > 0 THEN Fin(100 * total_missing, total_rows) ELSE FInt(0)
    IN  [column_name |-> ColumnNames[i],
         null_count |-> null_count,
         empty_count |-> empty_count,
         total_missing |-> total_missing,
         missing_percentage |-> Round2F(missing_percentage),
         present_count |-> total_rows - total_missing,
         present_percentage |-> Round2F(FSub(FInt(100), missing_percentage))]

\* DataProfiler.get_missing_values_summary
get_missing_values_summary(df) ==
    List([i \in 1..Len(df.cols) |-> MissingEntry(df, i)], Len(df.cols))

\* VizOutliers counting the examples it keeps
VizOutliersCountingExamples(numeric_series, Q1, Q3, mn, md) ==
    LET IQR == FSub(Q3, Q1)
        lower_bound == FSub(Q1, FScale(mn, md, IQR))
        upper_bound == FAdd(Q3, FScale(mn, md, IQR))
        isout(x) == FLt(x, lower_bound) \/ FLt(upper_bound, x)
        outliers == SelectSeq(numeric_series, isout)
        shown == head(outliers, VizExamples)
    IN  [has_outliers |-> Len(outliers) > 0,
         outlier_count |-> Len(shown),
         outlier_percentage |-> Round2(100 * Len(outliers), Len(numeric_series)),
         lower_bound |-> Round2F(lower_bound),
         upper_bound |-> Round2F(upper_bound),
         outliers |-> [i \in 1..Len(shown) |-> Round2F(shown[i])],
         inliers_count |-> Len(numeric_series) - Len(shown),
         q1 |-> Round2F(Q1),
         q3 |-> Round2F(Q3),
         iqr |-> Round2F(IQR)]

\* detect_outliers_for_visualization from the quartiles Q1 and Q3 on: the
\* bounds, the mask, the examples and the returned record
VizOutliers(numeric_series, Q1, Q3, mn, md) ==
    LET IQR == FSub(Q3, Q1)
        lower_bound == FSub(Q1, FScale(mn, md, IQR))
        upper_bound == FAdd(Q3, FScale(mn, md, IQR))
        isout(x) == FLt(x, lower_bound) \/ FLt(upper_bound, x)
        outliers == SelectSeq(numeric_series, isout)
        shown == head(outliers, VizExamples)
    IN  [has_outliers |-> Len(outliers) > 0,
         outlier_count |-> Len(outliers),
         outlier_percentage |-> Round2(100 * Len(outliers), Len(numeric_series)),
         lower_bound |-> Round2F(lower_bound),
         upper_bound |-> Round2F(upper_bound),
         outliers |-> [i \in 1..Len(shown) |-> Round2F(shown[i])],
         inliers_count |-> Len(numeric_series) - Len(outliers),
         q1 |-> Round2F(Q1),
         q3 |-> Round2F(Q3),
         iqr |-> Round2F(IQR)]

\* DataProfiler.detect_outliers_for_visualization, multiplier mn / md
detect_outliers_for_visualization(series, mn, md, nf) ==
    LET numeric_series == NumericSeries(series)
    IN  IF Len(numeric_series) = 0
        THEN [has_outliers |-> FALSE, outlier_count |-> 0,
              lower_bound |-> None, upper_bound |-> None,
              outliers |-> <<>>, inliers_count |-> 0]
        ELSE VizOutliers(numeric_series, quantile(numeric_series, 1, 4, nf),
                         quantile(numeric_series, 3, 4, nf), mn, md)

\* statistics of profile_column (rounded to 2 decimals)
statistics(numeric_series) ==
    [min |-> Round2F(SeriesMin(numeric_series)),
     max |-> Round2F(SeriesMax(numeric_series)),
     mean |-> Round2F(SeriesMean(numeric_series)),
     median |-> Round2F(SeriesMedian(numeric_series)),
     std |-> IF Len(numeric_series) > 1
             THEN Round2Sqrt(SeriesVar(numeric_series))
             ELSE FInt(0)]

\* ColumnProfileError without its error marker
ColumnProfileErrorUnmarked(column_name) ==
    [column_name |-> column_name,
     data_type |-> "unknown",
     is_numeric |-> FALSE,
     total_values |-> 0]

\* The profile profile_column returns from its except branch.
ColumnProfileError(column_name) ==
    [column_name |-> column_name,
     error |-> "error",
     data_type |-> "unknown",
     is_numeric |-> FALSE,
     total_values |-> 0]

\* DataProfiler.profile_column; raises: the body of the try block raises for
\* this column.
profile_column(df, i, is_numeric, raises, nf) ==
    LET series == df.cols[i]
        numeric_series == NumericSeries(series)
        profile ==
            [column_name |-> ColumnNames[i],
             data_type |-> dtype(series),
             is_numeric |-> is_numeric,
             total_values |-> Len(series),
             unique_count |-> nunique(series),
             null_count |-> Count(series, isnull)]
    IN  IF raises THEN ColumnProfileError(ColumnNames[i])
        ELSE IF is_numeric
        THEN IF Len(numeric_series) > 0
             THEN profile @@
                  [statistics |-> statistics(numeric_series),
                   histogram |-> generate_histogram_bins(series, NumBins),
                   outliers |-> detect_outliers_for_visualization(series, 3, 2, nf)]
             ELSE profile @@
                  [statistics |-> None, histogram |-> None, outliers |-> None]
        ELSE profile @@
             [value_counts |-> get_categorical_frequencies(series, TopN, MinFrequency)]

FailedProfile(error) ==
    [success |-> FALSE,
     error |-> error,
     dataset_info |-> [total_rows |-> 0, total_columns |-> 0]]

\* IsEmpty testing the columns only
IsEmptyNoColumns(df) == Len(df.cols) = 0

\* df.empty: no row or no column
IsEmpty(df) == df.rows = 0 \/ Len(df.cols) = 0

\* df.iloc[:, :max_columns]
FirstColumns(df, max_columns) ==
    [rows |-> df.rows, cols |-> head(df.cols, max_columns)]

\* The report generate_full_profile builds from the profiled frame, its
\* missing-value summary and its column profiles (memory_usage_mb, the
\* runtime's own accounting, is left out).
ProfileReport(df, missing_summary, column_profiles) ==
    LET n == Len(df.cols)
        numeric == LET P(i) == is_numeric_dtype(df.cols[i])
                   IN  SelectSeq([i \in 1..n |-> i], P)
        categorical == LET P(i) == ~is_numeric_dtype(df.cols[i])
                       IN  SelectSeq([i \in 1..n |-> i], P)
        outlier_count(p) ==
            IF Get(p, "is_numeric", FALSE)
            THEN LET o == Get(p, "outliers", None)
                 IN  IF o = None THEN 0 ELSE Get(o, "outlier_count", 0)
            ELSE 0
    IN  [success |-> TRUE,
         dataset_info |-> [total_rows |-> df.rows, total_columns |-> Len(df.cols)],
         missing_summary |-> missing_summary,
         column_profiles |-> column_profiles,
         numeric_columns |-> [j \in 1..Len(numeric) |-> ColumnNames[numeric[j]]],
         categorical_columns |->
             [j \in 1..Len(categorical) |-> ColumnNames[categorical[j]]],
         total_missing_values |->
             SeqSum([i \in 1..n |-> missing_summary[i].total_missing]),
         total_outliers |-> SeqSum([i \in 1..n |-> outlier_count(column_profiles[i])])]

\* the profiles of the columns of df
ColumnProfiles(df, fails, nf) ==
    List([i \in 1..Len(df.cols) |->
             profile_column(df, i, is_numeric_dtype(df.cols[i]), i \in fails, nf)],
         Len(df.cols))

\* The successful branch of generate_full_profile over a loaded table.
FullProfileOf(loaded, max_columns, fails, nf) ==
    LET df == IF Len(loaded.cols) > max_columns
              THEN FirstColumns(loaded, max_columns)
              ELSE loaded
    IN  ProfileReport(df, get_missing_values_summary(df), ColumnProfiles(df, fails, nf))

\* generate_full_profile in which a failing column reaches the outer except
generate_full_profile_abort(f, max_columns, fails, nf) ==
    IF f.status = "missing" THEN Returned(FailedProfile("Dataset file not found"))
    ELSE IF f.status # "ok" THEN Returned(FailedProfile("Profiling failed"))
    ELSE IF IsEmpty(read_csv(f.table)) THEN Returned(FailedProfile("Dataset is empty"))
    ELSE IF fails # {} THEN Returned(FailedProfile("Profiling failed"))
    ELSE Returned(FullProfileOf(read_csv(f.table), max_columns, fails, nf))

\* DataProfiler.generate_full_profile
generate_full_profile(f, max_columns, fails, nf) ==
    IF f.status = "missing" THEN Returned(FailedProfile("Dataset file not found"))
    ELSE IF f.status # "ok" THEN Returned(FailedProfile("Profiling failed"))
    ELSE IF IsEmpty(read_csv(f.table)) THEN Returned(FailedProfile("Dataset is empty"))
    ELSE Returned(FullProfileOf(read_csv(f.table), max_columns, fails, nf))

(***************************************************************************)
(* services/csv_parser.py                                                  *)
(***************************************************************************)
PreviewRows == 5
PreviewLimit == 10

NoneCell == [k |-> "none", v |-> 0]

\* A null cell is the float nan, an inf cell the float inf.
IsNonFiniteFloat(c) == c.k \in {"null", "inf"}

\* _sanitize_records that tests math.isnan only
sanitize_records_nan_only(records) ==
    [r \in 1..Len(records) |->
        [name \in DOMAIN records[r] |->
            IF records[r][name].k = "null" THEN NoneCell ELSE records[r][name]]]

\* CSVParser._sanitize_records
sanitize_records(records) ==
    [r \in 1..Len(records) |->
        [name \in DOMAIN records[r] |->
            IF IsNonFiniteFloat(records[r][name]) THEN NoneCell ELSE records[r][name]]]

\* df.head(limit).to_dict(orient = "records")
to_records(df, limit) ==
    LET n == IF df.rows < limit THEN df.rows ELSE limit
    IN  [r \in 1..n |->
            [name \in {ColumnNames[i] : i \in 1..Len(df.cols)} |->
                df.cols[CHOOSE i \in 1..Len(df.cols) : ColumnNames[i] = name][r]]]

\* CSVParser.parse_csv_file
parse_csv_file(f) ==
    IF f.status # "ok" THEN Raised("ValueError")
    ELSE LET df == read_csv(f.table)
         IN  Returned(
                 [df |-> df,
                  row_count |-> df.rows,
                  column_count |-> Len(df.cols),
                  columns |-> [i \in 1..Len(df.cols) |->
                                  [name |-> ColumnNames[i],
                                   type |-> dtype(df.cols[i]),
                                   index |-> i - 1]],
                  preview |-> sanitize_records(to_records(df, PreviewRows))])

\* CSVParser.get_preview_data
get_preview_data(f, limit) ==
    IF f.status # "ok" THEN Raised("ValueError")
    ELSE Returned(sanitize_records(to_records(read_csv(f.table), limit)))

\* duplicated comparing each row with the row just before it only
duplicated_adjacent(df) ==
    Cardinality({r \in 2..df.rows :
        \A i \in 1..Len(df.cols) : df.cols[i][r - 1] = df.cols[i][r]})

\* df.duplicated().sum(): the rows equal in every column to an earlier row
duplicated(df) ==
    Cardinality({r \in 1..df.rows :
        \E q \in 1..(r - 1) : \A i \in 1..Len(df.cols) : df.cols[i][q] = df.cols[i][r]})

\* completeness_score left unrounded
CompletenessScoreUnrounded(total_cells, null_cells) ==
    IF total_cells > 0
    THEN Fin(100 * (total_cells - null_cells), total_cells)
    ELSE FInt(100)

\* completeness_score of analyze_data_quality, lines 86-92 and 99
CompletenessScore(total_cells, null_cells) ==
    IF total_cells > 0
    THEN Round2(100 * (total_cells - null_cells), total_cells)
    ELSE FInt(100)

\* CSVParser.analyze_data_quality
analyze_data_quality(df) ==
    LET total_rows == df.rows
        total_columns == Len(df.cols)
        null_counts ==
            List([i \in 1..total_columns |-> Count(df.cols[i], isnull)], total_columns)
        total_cells == total_rows * total_columns
        null_cells == SeqSum(null_counts)
    IN  Returned(
        [total_rows |-> total_rows,
         total_columns |-> total_columns,
         duplicate_rows |-> duplicated(df),
         null_counts |-> null_counts,
         completeness_score |-> CompletenessScore(total_cells, null_cells)])

(***************************************************************************)
(* The state machine: a CSV resource and one call of an entry point of the *)
(* engine on it.                                                           *)
(***************************************************************************)
Shapes == {sh \in (0..MaxCells) \X (1..MaxCols) : sh[1] * sh[2] <= MaxCells}

Tables ==
    UNION {{[rows |-> sh[1], cols |-> cs] : cs \in [1..sh[2] -> [1..sh[1] -> Cells]]} :
           sh \in Shapes}

NoTable == [rows |-> 0, cols |-> <<>>]

\* The resource: a readable CSV file holding a table, a path with no file, or
\* a file pd.read_csv cannot parse (no columns).
Files ==
    {[status |-> "ok", table |-> t] : t \in Tables}
    \cup {[status |-> "missing", table |-> NoTable], [status |-> "empty", table |-> NoTable]}

NoArg == [max_columns |-> 0, fails |-> {}, nf |-> "nan", column_metadata |-> <<>>]

\* some numeric column holds an infinite value
HasInf(df) ==
    \E i \in 1..Len(df.cols) :
        is_numeric_dtype(df.cols[i]) /\ \E r \in 1..df.rows : df.cols[i][r].k = "inf"

\* the library behaviours that can show on this table
Modes(df) == IF HasInf(df) THEN NonFiniteModes ELSE {"nan"}

DataTypes == {"int64", "object", ""}

\* column_metadata: None, or one entry giving a column its expected type
Metadata(df) ==
    {<<>>} \cup {<<[column_name |-> ColumnNames[i], data_type |-> t]>> :
                    i \in 1..Len(df.cols), t \in DataTypes}

\* max_columns: a limit below the column count of the table, or the limit
\* that just admits it (any larger limit takes the same path)
MaxColumns(df) == 1..(IF Len(df.cols) = 0 THEN 1 ELSE Len(df.cols))

Init ==
    /\ file \in Files
    /\ pc = "idle"
    /\ arg = NoArg
    /\ ret = Returned(None)

GenerateFullProfile ==
    /\ pc = "idle"
    /\ \E max_columns \in MaxColumns(file.table), nf \in Modes(read_csv(file.table)) :
       \E fails \in SUBSET (1..(IF Len(file.table.cols) < max_columns
                                THEN Len(file.table.cols) ELSE max_columns)) :
          /\ arg' = [NoArg EXCEPT !.max_columns = max_columns, !.fails = fails, !.nf = nf]
          /\ ret' = generate_full_profile(file, max_columns, fails, nf)
    /\ pc' = "generate_full_profile"
    /\ UNCHANGED file

GenerateAdvancedQualityReport ==
    /\ pc = "idle"
    /\ \E column_metadata \in Metadata(file.table), nf \in Modes(read_csv(file.table)),
          fails \in SUBSET (1..Len(file.table.cols)) :
          /\ arg' = [NoArg EXCEPT !.column_metadata = column_metadata,
                                  !.fails = fails, !.nf = nf]
          /\ ret' = generate_advanced_quality_report(file, column_metadata, fails, nf)
    /\ pc' = "generate_advanced_quality_report"
    /\ UNCHANGED file

ParseCsvFile ==
    /\ pc = "idle"
    /\ ret' = parse_csv_file(file)
    /\ pc' = "parse_csv_file"
    /\ UNCHANGED <<file, arg>>

\* upload_dataset analyses the frame parse_csv_file returned
AnalyzeDataQuality ==
    /\ pc = "idle"
    /\ file.status = "ok"
    /\ ret' = analyze_data_quality(read_csv(file.table))
    /\ pc' = "analyze_data_quality"
    /\ UNCHANGED <<file, arg>>

GetPreviewData ==
    /\ pc = "idle"
    /\ ret' = get_preview_data(file, PreviewLimit)
    /\ pc' = "get_preview_data"
    /\ UNCHANGED <<file, arg>>

\* get_missing_values_summary takes a DataFrame: any table, one that holds
\* zero-length text included
GetMissingValuesSummary ==
    /\ pc = "idle"
    /\ file.status = "ok"
    /\ ret' = Returned(get_missing_values_summary(file.table))
    /\ pc' = "get_missing_values_summary"
    /\ UNCHANGED <<file, arg>>

Next ==
    \/ GenerateFullProfile
    \/ GenerateAdvancedQualityReport
    \/ ParseCsvFile
    \/ AnalyzeDataQuality
    \/ GetPreviewData
    \/ GetMissingValuesSummary

Spec == Init /\ [][Next]_vars

TypeOK ==
    /\ file \in Files
    /\ pc \in {"idle", "generate_full_profile", "generate_advanced_quality_report",
               "parse_csv_file", "analyze_data_quality", "get_preview_data",
               "get_missing_values_summary"}
    /\ ret.raised \in BOOLEAN

(***************************************************************************)
(* get_categorical_frequencies on its own: a categorical series, a top_n   *)
(* and a min_frequency.                                                    *)
(***************************************************************************)
MaxCatLen == 6

Category(n) == [k |-> "text", v |-> n]

\* the values a < b < c of a categorical column, and the missing value
CatCells == {NullCell, Category(1), Category(2), Category(3)}

CatSeries == UNION {[1..n -> CatCells] : n \in 0..MaxCatLen}

SeriesFile(s) == [status |-> "ok", table |-> [rows |-> Len(s), cols |-> <<s>>]]

TopNs == 0..3
MinFrequencies == 1..2

CatInit ==
    /\ file \in {SeriesFile(s) : s \in CatSeries}
    /\ pc = "idle"
    /\ arg = NoArg
    /\ ret = Returned(None)

GetCategoricalFrequencies ==
    /\ pc = "idle"
    /\ \E top_n \in TopNs, min_frequency \in MinFrequencies :
          /\ arg' = [top_n |-> top_n, min_frequency |-> min_frequency]
          /\ ret' = Returned(get_categorical_frequencies(file.table.cols[1],
                                                         top_n, min_frequency))
    /\ pc' = "get_categorical_frequencies"
    /\ UNCHANGED file

CatNext == GetCategoricalFrequencies

CatSpec == CatInit /\ [][CatNext]_vars

(***************************************************************************)
(* generate_histogram_bins and the two outlier detectors on their own: a   *)
(* numeric series, a num_bins or a multiplier.                             *)
(***************************************************************************)
MaxNumLen == 4

NumCells == {NullCell, NumCell(1), NumCell(2), NumCell(7), InfCell}

\* the series 1, 2, ..., 9, 100
TenValues == [i \in 1..10 |-> NumCell(IF i = 10 THEN 100 ELSE i)]

\* a series longer than twice the cap on outlier examples: 0, 1, 2, 1, 0, 1, ...
Striped ==
    [i \in 1..(2 * VizExamples + 8) |->
        NumCell(IF i % 4 = 1 THEN 0 ELSE IF i % 4 = 3 THEN 2 ELSE 1)]

NumSeries == UNION {[1..n -> NumCells] : n \in 0..MaxNumLen} \cup {TenValues, Striped}

\* num_bins: the default and small numbers of bins
BinCounts == {1, 2, 3, NumBins}

\* multiplier, as mn / md: 0, 1/2 and the default 1.5
Multipliers == {<<0, 1>>, <<1, 2>>, <<3, 2>>}

NumInit ==
    /\ file \in {SeriesFile(s) : s \in NumSeries}
    /\ pc = "idle"
    /\ arg = NoArg
    /\ ret = Returned(None)

GenerateHistogramBins ==
    /\ pc = "idle"
    /\ \E num_bins \in BinCounts :
          /\ arg' = [num_bins |-> num_bins]
          /\ ret' = Returned(generate_histogram_bins(file.table.cols[1], num_bins))
    /\ pc' = "generate_histogram_bins"
    /\ UNCHANGED file

DetectOutliersForVisualization ==
    /\ pc = "idle"
    /\ \E k \in Multipliers, nf \in Modes(file.table) :
          /\ arg' = [mn |-> k[1], md |-> k[2], nf |-> nf]
          /\ ret' = Returned(detect_outliers_for_visualization(file.table.cols[1],
                                                               k[1], k[2], nf))
    /\ pc' = "detect_outliers_for_visualization"
    /\ UNCHANGED file

DetectOutliersIqr ==
    /\ pc = "idle"
    /\ \E k \in Multipliers, nf \in Modes(file.table) :
          /\ arg' = [mn |-> k[1], md |-> k[2], nf |-> nf]
          /\ ret' = Returned(detect_outliers_iqr(file.table.cols[1], k[1], k[2], nf))
    /\ pc' = "detect_outliers_iqr"
    /\ UNCHANGED file

NumNext ==
    \/ GenerateHistogramBins
    \/ DetectOutliersForVisualization
    \/ DetectOutliersIqr

NumSpec == NumInit /\ [][NumNext]_vars

(***************************************************************************)
(* _generate_recommendations on its own: a list of column reports and an   *)
(* issues_summary.                                                         *)
(***************************************************************************)
MaxReports == 4

\* completeness_percentage of a column report: below, just below and at 50
CompletenessValues == {FInt(0), Fin(4999, 100), FInt(50)}

ColumnReports ==
    UNION {{[i \in 1..n |-> [column_name |-> ColumnNames[i],
                             completeness_percentage |-> c[i]]] :
               c \in [1..n -> CompletenessValues]} : n \in 0..MaxReports}

IssueCounts == 0..2

IssuesSummaries ==
    [{"missing_values", "outliers", "type_inconsistencies", "invalid_values"}
        -> IssueCounts]

RecInit ==
    /\ file = [status |-> "missing", table |-> NoTable]
    /\ pc = "idle"
    /\ arg \in {[column_reports |-> c, issues_summary |-> s] :
                    c \in ColumnReports, s \in IssuesSummaries}
    /\ ret = Returned(None)

GenerateRecommendations ==
    /\ pc = "idle"
    /\ ret' = Returned(generate_recommendations(arg.column_reports, arg.issues_summary))
    /\ pc' = "_generate_recommendations"
    /\ UNCHANGED <<file, arg>>

RecNext == GenerateRecommendations

RecSpec == RecInit /\ [][RecNext]_vars

(***************************************************************************)
(* _sanitize_records on its own: a list of records, sanitised once and the *)
(* result sanitised again.                                                 *)
(***************************************************************************)
MaxRecords == 2

\* the float -inf
NegInfCell == [k |-> "inf", v |-> -1]

\* the values of a record: nan, inf, -inf, a finite number, a string, None
RecordValues == {NullCell, InfCell, NegInfCell, NumCell(1), TextCell, NoneCell}

RecordKeys == {{}, {"a"}, {"a", "b"}}

Rows == UNION {[keys -> RecordValues] : keys \in RecordKeys}

RecordLists == UNION {[1..n -> Rows] : n \in 0..MaxRecords}

SanInit ==
    /\ file = [status |-> "missing", table |-> NoTable]
    /\ pc = "idle"
    /\ arg \in {[records |-> records] : records \in RecordLists}
    /\ ret = Returned(None)

\* _sanitize_records(records): the list is read, a new list is returned
SanitizeRecords ==
    /\ pc = "idle"
    /\ ret' = Returned(sanitize_records(arg.records))
    /\ pc' = "_sanitize_records"
    /\ UNCHANGED <<file, arg>>

\* _sanitize_records applied to the list it returned
SanitizeAgain ==
    /\ pc = "_sanitize_records"
    /\ ret' = Returned(sanitize_records(ret.value))
    /\ pc' = "_sanitize_records twice"
    /\ UNCHANGED <<file, arg>>

SanNext == SanitizeRecords \/ SanitizeAgain

SanSpec == SanInit /\ [][SanNext]_vars

(***************************************************************************)
(* The two scores of one table: completeness_score of analyze_data_quality *)
(* at upload, then quality_score of generate_advanced_quality_report. Both *)
(* read the table through its cell counts only, so the table is given by   *)
(* its shape and its counts of null, empty-string and invalid cells; this  *)
(* reaches tables of tens of thousands of cells.                           *)
(***************************************************************************)
MaxBad == 2

RowCounts == {0, 1, 2, 3, 10000, 15000}
ColumnCounts == {1, 2}

\* the counts of a loaded table in which no column analysis fails (read_csv
\* leaves no zero-length text in the frame)
CellCounts ==
    {c \in [total_rows : RowCounts, total_columns : ColumnCounts,
            null_cells : 0..MaxBad, empty_strings : {0},
            invalid_values : 0..MaxBad] :
        c.null_cells + c.empty_strings + c.invalid_values
            <= c.total_rows * c.total_columns}

ScoreInit ==
    /\ file = [status |-> "ok", table |-> NoTable]
    /\ pc = "idle"
    /\ arg \in CellCounts
    /\ ret = Returned(None)

\* analyze_data_quality, lines 86-99: the score from the null cells
ScoreCompleteness ==
    /\ pc = "idle"
    /\ ret' = Returned([completeness_score |->
                            CompletenessScore(arg.total_rows * arg.total_columns,
                                              arg.null_cells)])
    /\ pc' = "completeness_score"
    /\ UNCHANGED <<file, arg>>

\* generate_advanced_quality_report, lines 236-255, on the same table: the
\* score from the null, empty-string and invalid cells
ScoreQuality ==
    /\ pc = "completeness_score"
    /\ ret' = Returned([completeness_score |-> ret.value.completeness_score,
                        quality_score |->
                            QualityScore(arg.total_rows * arg.total_columns,
                                         arg.null_cells + arg.empty_strings
                                             + arg.invalid_values)])
    /\ pc' = "quality_score"
    /\ UNCHANGED <<file, arg>>

ScoreNext == ScoreCompleteness \/ ScoreQuality

ScoreSpec == ScoreInit /\ [][ScoreNext]_vars

(***************************************************************************)
(* upload_dataset: the request is followed step by step, each step either  *)
(* succeeding or raising, through the disk of the upload directory and the *)
(* three tables of the database. file holds the disk and the tables, ret   *)
(* the handler's locals and its answer.                                    *)
(***************************************************************************)
MaxUploadRows == 1

MAX_FILE_SIZE == 50 * 1024 * 1024

\* the cells of an uploaded file: a missing value, a number, a text
UploadCells == {NullCell, NumCell(1), TextCell}

\* the contents of an uploaded file: a table of few rows, or bytes that
\* pd.read_csv cannot parse
Contents ==
    UNION {{[status |-> "ok", table |-> [rows |-> sh[1], cols |-> cs]] :
               cs \in [1..sh[2] -> [1..sh[1] -> UploadCells]]} :
           sh \in {x \in Shapes : x[1] <= MaxUploadRows}}
    \cup {[status |-> "empty", table |-> NoTable]}

\* the multipart request: the file's name and size and its bytes, and the
\* authenticated caller
Uploads ==
    [filename : {"data.csv", "data.txt"},
     file_size : {8192, MAX_FILE_SIZE + 1},
     content : Contents,
     user_id : {1, 2}]

\* validate_file_extension
validate_file_extension(filename) == filename = "data.csv"

\* generate_unique_filename joined to UPLOAD_DIR; requests of one user
\* carrying one file name arrive in different seconds
generate_unique_filename(original_filename, user_id, timestamp) ==
    [dir |-> "uploads", user_id |-> user_id, timestamp |-> timestamp,
     name |-> original_filename]

\* user 1 uploaded a one-column file earlier
EarlierPath == generate_unique_filename("data.csv", 1, 0)

EarlierContent == [status |-> "ok", table |-> [rows |-> 0, cols |-> <<<<>>>>]]

EarlierDatabase ==
    [datasets |-> {[id |-> 1, user_id |-> 1, file_path |-> EarlierPath,
                    row_count |-> 0, column_count |-> 1]},
     dataset_columns |-> {[dataset_id |-> 1, column_name |-> "a",
                           column_type |-> "object", column_index |-> 0]},
     quality_reports |-> {[dataset_id |-> 1, total_rows |-> 0, total_columns |-> 1,
                           duplicate_rows |-> 0, null_counts |-> <<0>>,
                           completeness_score |-> FInt(100)]},
     sequence |-> 1]

EmptyDatabase ==
    [datasets |-> {}, dataset_columns |-> {}, quality_reports |-> {}, sequence |-> 0]

\* the files of the upload directory, path by path
EmptyDisk == [p \in {} |-> NoTable]

Stored(disk, path, content) ==
    [p \in DOMAIN disk \cup {path} |-> IF p = path THEN content ELSE disk[p]]

\* os.remove
Removed(disk, path) == [p \in DOMAIN disk \ {path} |-> disk[p]]

\* delete_file: os.remove when the path exists; an error of os.remove is
\* logged and False is returned
delete_file(disk, file_path, removes) ==
    IF file_path \in DOMAIN disk /\ removes THEN Removed(disk, file_path) ELSE disk

\* DatasetModel.create_dataset: the new row is given the next AUTOINCREMENT
\* id; an error of the INSERT or of the commit rolls back and None is returned
create_dataset(db, user_id, file_path, row_count, column_count, commits) ==
    IF commits
    THEN LET row == [id |-> db.sequence + 1, user_id |-> user_id,
                     file_path |-> file_path, row_count |-> row_count,
                     column_count |-> column_count]
         IN  [db |-> [db EXCEPT !.datasets = @ \cup {row}, !.sequence = @ + 1],
              value |-> row]
    ELSE [db |-> db, value |-> None]

\* DatasetModel.save_column_metadata: one INSERT per column in one
\* transaction; an error rolls all of them back and False is returned
save_column_metadata(db, dataset_id, columns, commits) ==
    IF commits
    THEN [db |-> [db EXCEPT !.dataset_columns = @ \cup
                     {[dataset_id |-> dataset_id,
                       column_name |-> columns[i].name,
                       column_type |-> columns[i].type,
                       column_index |-> columns[i].index] : i \in 1..Len(columns)}],
          value |-> TRUE]
    ELSE [db |-> db, value |-> FALSE]

\* DatasetModel.save_quality_report
save_quality_report(db, dataset_id, quality_data, commits) ==
    IF commits
    THEN [db |-> [db EXCEPT !.quality_reports = @ \cup
                     {[dataset_id |-> dataset_id,
                       total_rows |-> quality_data.total_rows,
                       total_columns |-> quality_data.total_columns,
                       duplicate_rows |-> quality_data.duplicate_rows,
                       null_counts |-> quality_data.null_counts,
                       completeness_score |-> quality_data.completeness_score]}],
          value |-> TRUE]
    ELSE [db |-> db, value |-> FALSE]

\* DatasetModel.delete_dataset: DELETE ... WHERE id = ? AND user_id = ?; the
\* rows of dataset_columns and quality_reports that reference a deleted row
\* go with it (ON DELETE CASCADE, foreign keys on); an error of the DELETE or
\* of the commit is logged and False is returned
delete_dataset(db, dataset_id, user_id, commits) ==
    IF commits
    THEN LET kept == {d \in db.datasets : ~(d.id = dataset_id /\ d.user_id = user_id)}
             ids == {d.id : d \in kept}
         IN  [db EXCEPT !.datasets = kept,
                        !.dataset_columns = {c \in @ : c.dataset_id \in ids},
                        !.quality_reports = {q \in @ : q.dataset_id \in ids}]
    ELSE db

Locals ==
    [file_path |-> None, dataset |-> None, parse_result |-> None,
     quality_data |-> None, status |-> 0]

UploadInit ==
    /\ \E db \in {EmptyDatabase, EarlierDatabase} :
          /\ file = [disk |-> IF db = EmptyDatabase THEN EmptyDisk
                              ELSE Stored(EmptyDisk, EarlierPath, EarlierContent),
                     db |-> db]
          /\ arg \in {[upload |-> u, db |-> db] : u \in Uploads}
    /\ pc = "save_upload_file"
    /\ ret = Locals

UploadPath == generate_unique_filename(arg.upload.filename, arg.upload.user_id, 1)

\* step 1, save_upload_file: a wrong extension raises before any write; a
\* file over MAX_FILE_SIZE is removed again and raises; an error while
\* writing raises after the partial file is removed, when os.remove succeeds
UploadSave ==
    /\ pc = "save_upload_file"
    /\ \/ /\ ~validate_file_extension(arg.upload.filename)
          /\ pc' = "except"
          /\ UNCHANGED <<file, ret>>
       \/ /\ validate_file_extension(arg.upload.filename)
          /\ arg.upload.file_size > MAX_FILE_SIZE
          /\ pc' = "except"
          /\ UNCHANGED <<file, ret>>
       \/ /\ validate_file_extension(arg.upload.filename)
          /\ arg.upload.file_size <= MAX_FILE_SIZE
          /\ \E written \in BOOLEAN, removes \in BOOLEAN :
                IF written
                THEN /\ file' = [file EXCEPT !.disk =
                                     Stored(@, UploadPath, arg.upload.content)]
                     /\ ret' = [ret EXCEPT !.file_path = UploadPath]
                     /\ pc' = "parse_csv_file"
                ELSE /\ file' = [file EXCEPT !.disk =
                                     delete_file(Stored(@, UploadPath, arg.upload.content),
                                                 UploadPath, removes)]
                     /\ pc' = "except"
                     /\ UNCHANGED ret
    /\ UNCHANGED arg

\* step 2, CSVParser.parse_csv_file on the stored file
UploadParse ==
    /\ pc = "parse_csv_file"
    /\ LET parse_result == parse_csv_file(file.disk[ret.file_path])
       IN  IF parse_result.raised
           THEN /\ pc' = "except"
                /\ UNCHANGED ret
           ELSE /\ pc' = "analyze_data_quality"
                /\ ret' = [ret EXCEPT !.parse_result = parse_result.value]
    /\ UNCHANGED <<file, arg>>

\* step 3, CSVParser.analyze_data_quality; any error inside it is raised as
\* ValueError
UploadAnalyze ==
    /\ pc = "analyze_data_quality"
    /\ \E raises \in BOOLEAN :
          IF raises
          THEN /\ pc' = "except"
               /\ UNCHANGED ret
          ELSE /\ pc' = "create_dataset"
               /\ ret' = [ret EXCEPT !.quality_data =
                              analyze_data_quality(ret.parse_result.df).value]
    /\ UNCHANGED <<file, arg>>

\* step 4, DatasetModel.create_dataset; None raises RuntimeError
UploadCreateDataset ==
    /\ pc = "create_dataset"
    /\ \E commits \in BOOLEAN :
          LET created == create_dataset(file.db, arg.upload.user_id, ret.file_path,
                                        ret.parse_result.row_count,
                                        ret.parse_result.column_count, commits)
          IN  /\ file' = [file EXCEPT !.db = created.db]
              /\ ret' = [ret EXCEPT !.dataset = created.value]
              /\ pc' = IF created.value = None THEN "except" ELSE "save_column_metadata"
    /\ UNCHANGED arg

\* step 5, DatasetModel.save_column_metadata; False raises RuntimeError
UploadSaveColumnMetadata ==
    /\ pc = "save_column_metadata"
    /\ \E commits \in BOOLEAN :
          LET saved == save_column_metadata(file.db, ret.dataset.id,
                                            ret.parse_result.columns, commits)
          IN  /\ file' = [file EXCEPT !.db = saved.db]
              /\ pc' = IF saved.value THEN "save_quality_report" ELSE "except"
    /\ UNCHANGED <<arg, ret>>

\* step 6, DatasetModel.save_quality_report; a falsy result raises
\* RuntimeError, otherwise the dataset row is returned with status 201
UploadSaveQualityReport ==
    /\ pc = "save_quality_report"
    /\ \E commits \in BOOLEAN :
          LET saved == save_quality_report(file.db, ret.dataset.id,
                                           ret.quality_data, commits)
          IN  /\ file' = [file EXCEPT !.db = saved.db]
              /\ IF saved.value
                 THEN /\ pc' = "return"
                      /\ ret' = [ret EXCEPT !.status = 201]
                 ELSE /\ pc' = "except"
                      /\ UNCHANGED ret
    /\ UNCHANGED arg

\* except Exception: delete_dataset when the row was created, delete_file
\* when the file was saved, both results ignored, then HTTP 500
UploadExcept ==
    /\ pc = "except"
    /\ \E commits \in BOOLEAN, removes \in BOOLEAN :
          file' = [disk |-> IF ret.file_path # None
                            THEN delete_file(file.disk, ret.file_path, removes)
                            ELSE file.disk,
                   db |-> IF ret.dataset # None
                          THEN delete_dataset(file.db, ret.dataset.id,
                                              arg.upload.user_id, commits)
                          ELSE file.db]
    /\ ret' = [ret EXCEPT !.status = 500]
    /\ pc' = "raise"
    /\ UNCHANGED arg

UploadNext ==
    \/ UploadSave
    \/ UploadParse
    \/ UploadAnalyze
    \/ UploadCreateDataset
    \/ UploadSaveColumnMetadata
    \/ UploadSaveQualityReport
    \/ UploadExcept

UploadSpec == UploadInit /\ [][UploadNext]_vars

(***************************************************************************)
(* The dataset routes behind get_current_user: requests carrying any       *)
(* credentials arrive one after another at a database that holds uploaded  *)
(* datasets of several users. file holds the disk, the tables and the      *)
(* users, arg the last request and ret its answer.                         *)
(***************************************************************************)
MaxDatasets == 2

SECRET_KEY == "your-secret-key-change-in-production"

\* the rows of the users table: two users and an admin
Registered ==
    {[id |-> 1, email |-> "ann@example.com", username |-> "ann", role |-> "user"],
     [id |-> 2, email |-> "bob@example.com", username |-> "bob", role |-> "user"],
     [id |-> 3, email |-> "root@example.com", username |-> "root", role |-> "admin"]}

UserIds == {u.id : u \in Registered}

\* int(user_id) of the text str(id) that login put into the token
int(text) == CHOOSE n \in UserIds : ToString(n) = text

\* create_access_token(data): the claims as text, signed with SECRET_KEY
create_access_token(data, expired) ==
    [payload |-> [k \in DOMAIN data |-> data[k]], key |-> SECRET_KEY, expired |-> expired]

\* the token login issues for a user
LoginToken(user, expired) ==
    create_access_token([sub |-> ToString(user.id), role |-> user.role], expired)

\* decode_access_token: the payload of a token signed with SECRET_KEY that
\* has not expired, None for any other token
decode_access_token(token) ==
    IF token.key = SECRET_KEY /\ ~token.expired THEN token.payload ELSE None

NoCredentials == [scheme |-> "", credentials |-> None]

Bearer(token) == [scheme |-> "bearer", credentials |-> token]

\* what a request can carry: no Authorization header, a token login issued
\* (fresh or expired), the same claims signed with another key, a token
\* signed with SECRET_KEY that lacks a claim
Credentials ==
    {NoCredentials}
    \cup {Bearer(LoginToken(u, expired)) : u \in Registered, expired \in BOOLEAN}
    \cup {Bearer([LoginToken(u, FALSE) EXCEPT !.key = "forged"]) : u \in Registered}
    \cup {Bearer(create_access_token([sub |-> "3"], FALSE)),
          Bearer(create_access_token([role |-> "admin"], FALSE))}

Answer(status, body) == [status |-> status, body |-> body]

HTTPException(status) == Answer(status, None)

\* get_current_user behind HTTPBearer: a request without bearer credentials
\* is refused by HTTPBearer with not_authenticated (403, or 401 in later
\* releases of the framework), a token that does not decode or lacks sub or
\* role with 401; otherwise the caller is TokenData(int(sub), role)
get_current_user(credentials, not_authenticated) ==
    IF credentials.scheme # "bearer" THEN HTTPException(not_authenticated)
    ELSE LET payload == decode_access_token(credentials.credentials)
         IN  IF payload = None THEN HTTPException(401)
             ELSE IF "sub" \notin DOMAIN payload \/ "role" \notin DOMAIN payload
                  THEN HTTPException(401)
                  ELSE Answer(200, [user_id |-> int(payload.sub), role |-> payload.role])

\* require_admin
require_admin(credentials, not_authenticated) ==
    LET current_user == get_current_user(credentials, not_authenticated)
    IN  IF current_user.status # 200 THEN current_user
        ELSE IF current_user.body.role # "admin" THEN HTTPException(403)
             ELSE current_user

\* the ownership test of the four routes of one dataset, with the dataset's
\* id in place of its user_id
AccessDeniedByDatasetId(current_user, dataset) ==
    current_user.role # "admin" /\ dataset.id # current_user.user_id

\* the ownership test of the four routes of one dataset
AccessDenied(current_user, dataset) ==
    current_user.role # "admin" /\ dataset.user_id # current_user.user_id

\* the NULL of the columns file_path, row_count and column_count in the row
\* of a dataset created without a file
NullPath == [dir |-> "", user_id |-> 0, timestamp |-> 0, name |-> ""]

NullInteger == -1

\* DatasetModel.get_dataset_by_id
get_dataset_by_id(db, dataset_id) ==
    IF \E d \in db.datasets : d.id = dataset_id
    THEN CHOOSE d \in db.datasets : d.id = dataset_id
    ELSE None

\* DatasetModel.get_datasets_by_user (the rows, whatever their order)
get_datasets_by_user(db, user_id) == {d \in db.datasets : d.user_id = user_id}

\* DatasetModel.get_all_datasets: every row joined to its owner
get_all_datasets(db, users) ==
    {[id |-> j[1].id, user_id |-> j[1].user_id, file_path |-> j[1].file_path,
      row_count |-> j[1].row_count, column_count |-> j[1].column_count,
      owner_username |-> j[2].username, owner_email |-> j[2].email] :
        j \in {x \in db.datasets \X users : x[1].user_id = x[2].id}}

\* DatasetModel.get_column_metadata
get_column_metadata(db, dataset_id) == {c \in db.dataset_columns : c.dataset_id = dataset_id}

\* DatasetModel.get_quality_report
get_quality_report(db, dataset_id) ==
    IF \E q \in db.quality_reports : q.dataset_id = dataset_id
    THEN CHOOSE q \in db.quality_reports : q.dataset_id = dataset_id
    ELSE None

\* the file a user uploads: one column holding the user's own number
OwnContent(user_id) ==
    [status |-> "ok", table |-> [rows |-> 1, cols |-> <<<<NumCell(user_id)>>>>]]

\* disk and tables after upload_dataset has answered 201 to the user whose
\* request arrived in the given second
Uploaded(state, user_id, timestamp) ==
    LET file_path == generate_unique_filename("data.csv", user_id, timestamp)
        disk == Stored(state.disk, file_path, OwnContent(user_id))
        parse_result == parse_csv_file(disk[file_path]).value
        created == create_dataset(state.db, user_id, file_path, parse_result.row_count,
                                  parse_result.column_count, TRUE)
        columns == save_column_metadata(created.db, created.value.id,
                                        parse_result.columns, TRUE)
        report == save_quality_report(columns.db, created.value.id,
                                      analyze_data_quality(parse_result.df).value, TRUE)
    IN  [state EXCEPT !.disk = disk, !.db = report.db]

\* the uploads of the given users, one after another
RECURSIVE UploadedBy(_)
UploadedBy(owners) ==
    IF Len(owners) = 0
    THEN [disk |-> EmptyDisk, db |-> EmptyDatabase, users |-> Registered]
    ELSE Uploaded(UploadedBy(SubSeq(owners, 1, Len(owners) - 1)),
                  owners[Len(owners)], Len(owners))

DatasetIds == 1..(MaxDatasets + 1)

NoRequest == [credentials |-> NoCredentials, dataset_id |-> 0]

AccessInit ==
    /\ file \in {UploadedBy(owners) :
                    owners \in UNION {[1..n -> UserIds] : n \in 0..MaxDatasets}}
    /\ pc = "idle"
    /\ arg = NoRequest
    /\ ret = Answer(0, None)

\* the request reaches the route: its credentials, the dataset it names
Request(route, credentials, dataset_id) ==
    /\ pc = "idle"
    /\ pc' = route
    /\ arg' = [credentials |-> credentials, dataset_id |-> dataset_id]

\* the answer of a route of one dataset, given what it returns to a caller
\* who may see the dataset
OneDataset(db, dataset_id, current_user, allowed(_)) ==
    IF current_user.status # 200 THEN current_user
    ELSE LET dataset == get_dataset_by_id(db, dataset_id)
         IN  IF dataset = None THEN HTTPException(404)
             ELSE IF AccessDenied(current_user.body, dataset) THEN HTTPException(403)
                  ELSE allowed(dataset)

\* POST /datasets/
CreateDataset ==
    /\ file.db.sequence < MaxDatasets + 1
    /\ \E credentials \in Credentials, not_authenticated \in {401, 403},
          commits \in BOOLEAN :
          LET current_user == get_current_user(credentials, not_authenticated)
              created == create_dataset(file.db, current_user.body.user_id,
                                        NullPath, NullInteger, NullInteger, commits)
          IN  /\ Request("create_dataset", credentials, 0)
              /\ IF current_user.status # 200
                 THEN /\ ret' = current_user
                      /\ UNCHANGED file
                 ELSE /\ file' = [file EXCEPT !.db = created.db]
                      /\ ret' = IF created.value = None THEN HTTPException(500)
                                ELSE Answer(201, created.value)

\* POST /datasets/upload without usable credentials: the dependency raises
\* and the handler body does not run
UploadDatasetRefused ==
    /\ \E credentials \in Credentials, not_authenticated \in {401, 403} :
          LET current_user == get_current_user(credentials, not_authenticated)
          IN  /\ current_user.status # 200
              /\ Request("upload_dataset", credentials, 0)
              /\ ret' = current_user
    /\ UNCHANGED file

\* GET /datasets/
GetDatasets ==
    /\ \E credentials \in Credentials, not_authenticated \in {401, 403} :
          LET current_user == get_current_user(credentials, not_authenticated)
          IN  /\ Request("get_datasets", credentials, 0)
              /\ ret' = IF current_user.status # 200 THEN current_user
                        ELSE IF current_user.body.role = "admin"
                             THEN Answer(200, get_all_datasets(file.db, file.users))
                             ELSE Answer(200, get_datasets_by_user(file.db,
                                                  current_user.body.user_id))
    /\ UNCHANGED file

\* GET /datasets/{dataset_id}
GetDataset ==
    /\ \E credentials \in Credentials, not_authenticated \in {401, 403},
          dataset_id \in DatasetIds :
          LET allowed(dataset) == Answer(200, dataset)
          IN  /\ Request("get_dataset", credentials, dataset_id)
              /\ ret' = OneDataset(file.db, dataset_id,
                                   get_current_user(credentials, not_authenticated),
                                   allowed)
    /\ UNCHANGED file

\* GET /datasets/{dataset_id}/detail
GetDatasetDetail ==
    /\ \E credentials \in Credentials, not_authenticated \in {401, 403},
          dataset_id \in DatasetIds :
          LET allowed(dataset) ==
                  Answer(200, [dataset |-> dataset,
                               columns |-> get_column_metadata(file.db, dataset_id),
                               quality_report |-> get_quality_report(file.db, dataset_id)])
          IN  /\ Request("get_dataset_detail", credentials, dataset_id)
              /\ ret' = OneDataset(file.db, dataset_id,
                                   get_current_user(credentials, not_authenticated),
                                   allowed)
    /\ UNCHANGED file

\* GET /datasets/{dataset_id}/preview: a dataset without a readable file
\* makes get_preview_data raise, which the route does not catch
GetDatasetPreview ==
    /\ \E credentials \in Credentials, not_authenticated \in {401, 403},
          dataset_id \in DatasetIds :
          LET allowed(dataset) ==
                  IF dataset.file_path \notin DOMAIN file.disk THEN HTTPException(500)
                  ELSE LET rows == get_preview_data(file.disk[dataset.file_path],
                                                    PreviewLimit)
                       IN  IF rows.raised THEN HTTPException(500)
                           ELSE Answer(200,
                                    [columns |-> IF Len(rows.value) > 0
                                                 THEN DOMAIN rows.value[1] ELSE {},
                                     rows |-> rows.value,
                                     total_rows |-> dataset.row_count])
          IN  /\ Request("get_dataset_preview", credentials, dataset_id)
              /\ ret' = OneDataset(file.db, dataset_id,
                                   get_current_user(credentials, not_authenticated),
                                   allowed)
    /\ UNCHANGED file

\* GET /datasets/{dataset_id}/quality
GetQualityReport ==
    /\ \E credentials \in Credentials, not_authenticated \in {401, 403},
          dataset_id \in DatasetIds :
          LET allowed(dataset) ==
                  LET report == get_quality_report(file.db, dataset_id)
                  IN  IF report = None THEN HTTPException(404)
                      ELSE Answer(200, report)
          IN  /\ Request("get_quality_report", credentials, dataset_id)
              /\ ret' = OneDataset(file.db, dataset_id,
                                   get_current_user(credentials, not_authenticated),
                                   allowed)
    /\ UNCHANGED file

\* GET /datasets/admin/all
GetAllDatasetsAdmin ==
    /\ \E credentials \in Credentials, not_authenticated \in {401, 403} :
          LET admin_user == require_admin(credentials, not_authenticated)
          IN  /\ Request("get_all_datasets_admin", credentials, 0)
              /\ ret' = IF admin_user.status # 200 THEN admin_user
                        ELSE Answer(200, get_all_datasets(file.db, file.users))
    /\ UNCHANGED file

\* the answer is sent and the router takes the next request
NextRequest ==
    /\ pc # "idle"
    /\ pc' = "idle"
    /\ arg' = NoRequest
    /\ ret' = Answer(0, None)
    /\ UNCHANGED file

AccessNext ==
    \/ NextRequest
    \/ CreateDataset
    \/ UploadDatasetRefused
    \/ GetDatasets
    \/ GetDataset
    \/ GetDatasetDetail
    \/ GetDatasetPreview
    \/ GetQualityReport
    \/ GetAllDatasetsAdmin

AccessSpec == AccessInit /\ [][AccessNext]_vars

(***************************************************************************)
(* register: several requests are served at once by worker processes that  *)
(* share the SQLite file. Each request looks up the email, then the        *)
(* username, then inserts; a statement of one request may run between two  *)
(* statements of another. file holds the users table, pc, arg and ret the  *)
(* position, the body and the answer of each request.                      *)
(***************************************************************************)
MaxRegistrations == 2

Registrations == 1..MaxRegistrations

Emails == {"ann@example.com", "bob@example.com"}

Usernames == {"ann", "bob"}

\* UserRegister: the body of a request, role left at its default
UserRegister == [email : Emails, username : Usernames]

\* the users table before the requests: empty, or holding ann
UsersTables ==
    {[rows |-> {}, sequence |-> 0],
     [rows |-> {[id |-> 1, email |-> "ann@example.com", username |-> "ann",
                 role |-> "user"]},
      sequence |-> 1]}

\* UserModel.get_user_by_email: some row or None
get_user_by_email(users, email) == {u \in users.rows : u.email = email}

\* UserModel.get_user_by_username
get_user_by_username(users, username) == {u \in users.rows : u.username = username}

\* the INSERT of create_user into a table declared without UNIQUE columns
create_user_no_unique(users, email, username) ==
    LET row == [id |-> users.sequence + 1, email |-> email, username |-> username,
                role |-> "user"]
    IN  [users |-> [rows |-> users.rows \cup {row}, sequence |-> users.sequence + 1],
         value |-> row]

\* UserModel.create_user: the INSERT is refused when email or username is
\* already in a row (email TEXT UNIQUE, username TEXT UNIQUE); the error is
\* logged and None is returned. Otherwise the committed row is returned.
create_user(users, email, username) ==
    IF \E u \in users.rows : u.email = email \/ u.username = username
    THEN [users |-> users, value |-> None]
    ELSE LET row == [id |-> users.sequence + 1, email |-> email,
                     username |-> username, role |-> "user"]
         IN  [users |-> [rows |-> users.rows \cup {row},
                         sequence |-> users.sequence + 1],
              value |-> row]

RegInit ==
    /\ file \in UsersTables
    /\ pc = [p \in Registrations |-> "get_user_by_email"]
    /\ arg \in [Registrations -> UserRegister]
    /\ ret = [p \in Registrations |-> [status |-> 0, registered |-> FALSE, user |-> None]]

\* register, lines 29-34: 400 when the email has a row; the request also
\* notes whether its email or username had a row when it arrived
CheckEmail(p) ==
    /\ pc[p] = "get_user_by_email"
    /\ LET registered == get_user_by_email(file, arg[p].email) # {}
                         \/ get_user_by_username(file, arg[p].username) # {}
       IN  IF get_user_by_email(file, arg[p].email) # {}
           THEN /\ pc' = [pc EXCEPT ![p] = "raise"]
                /\ ret' = [ret EXCEPT ![p].status = 400, ![p].registered = registered]
           ELSE /\ pc' = [pc EXCEPT ![p] = "get_user_by_username"]
                /\ ret' = [ret EXCEPT ![p].registered = registered]
    /\ UNCHANGED <<file, arg>>

\* register, lines 36-41: 400 when the username has a row
CheckUsername(p) ==
    /\ pc[p] = "get_user_by_username"
    /\ IF get_user_by_username(file, arg[p].username) # {}
       THEN /\ pc' = [pc EXCEPT ![p] = "raise"]
            /\ ret' = [ret EXCEPT ![p].status = 400]
       ELSE /\ pc' = [pc EXCEPT ![p] = "create_user"]
            /\ UNCHANGED ret
    /\ UNCHANGED <<file, arg>>

\* register, lines 43-58: create_user, 500 when it returns None, else 201
CreateUser(p) ==
    /\ pc[p] = "create_user"
    /\ LET created == create_user(file, arg[p].email, arg[p].username)
       IN  /\ file' = created.users
           /\ IF created.value = None
              THEN /\ pc' = [pc EXCEPT ![p] = "raise"]
                   /\ ret' = [ret EXCEPT ![p].status = 500]
              ELSE /\ pc' = [pc EXCEPT ![p] = "return"]
                   /\ ret' = [ret EXCEPT ![p].status = 201, ![p].user = created.value]
    /\ UNCHANGED arg

RegNext ==
    \E p \in Registrations : CheckEmail(p) \/ CheckUsername(p) \/ CreateUser(p)

RegSpec == RegInit /\ [][RegNext]_vars

(***************************************************************************)
(* Properties.                                                             *)
(***************************************************************************)
QualityReturned == pc = "generate_advanced_quality_report" /\ ~ret.raised
ProfileReturned == pc = "generate_full_profile" /\ ~ret.raised
ProfileSucceeded == ProfileReturned /\ ret.value.success
Loaded == file.status = "ok"

\* the frame the entry points load from the file
Frame == read_csv(file.table)

\* C1: for every file (null, numeric, text and zero-length fields, any rows and
\* columns), the report of generate_advanced_quality_report has
\* 0 <= quality_score <= 100, and missing_values + invalid_values never exceeds
\* total_cells: no cell is penalised twice.
C1_ScoreWithinBounds ==
    QualityReturned =>
        LET r == ret.value
        IN  /\ FLe(FInt(0), r.quality_score)
            /\ FLe(r.quality_score, FInt(100))
            /\ r.issues_summary.missing_values + r.issues_summary.invalid_values
                   <= r.dataset_metrics.total_cells

\* a file whose only missing values are zero-length fields, with text fields
\* besides: every cell is penalised once and the score is 0
C1_Witness ==
    /\ QualityReturned
    /\ Len(file.table.cols) > 1
    /\ \E i \in 1..Len(file.table.cols) : EmptyStr \in Range(file.table.cols[i])
    /\ \A i \in 1..Len(file.table.cols) : NullCell \notin Range(file.table.cols[i])
    /\ ret.value.issues_summary.missing_values > 0
    /\ ret.value.issues_summary.invalid_values > 0
    /\ ret.value.issues_summary.missing_values + ret.value.issues_summary.invalid_values
           = ret.value.dataset_metrics.total_cells
    /\ ret.value.quality_score = FInt(0)

\* C2: quality_score is (total_cells - (missing_values + invalid_values))
\* / total_cells * 100 rounded to 2 decimals, 100 for no cell; it is a function
\* of these three counts alone (outliers and duplicate rows do not enter), and
\* it is 100 when missing_values and invalid_values are both 0.
C2_ScoreFormula ==
    QualityReturned =>
        LET r == ret.value
            cells == r.dataset_metrics.total_cells
            missing == r.issues_summary.missing_values
            invalid == r.issues_summary.invalid_values
        IN  /\ cells = r.dataset_metrics.total_rows * r.dataset_metrics.total_columns
            /\ cells = 0 => r.quality_score = FInt(100)
            /\ cells > 0 =>
                   r.quality_score = Round2(100 * (cells - (missing + invalid)), cells)
            /\ (missing = 0 /\ invalid = 0) => r.quality_score = FInt(100)

\* a report scored 100 although the table has outliers and duplicate rows
C2_Witness ==
    /\ QualityReturned
    /\ ret.value.issues_summary.outliers > 0
    /\ duplicated(Frame) > 0
    /\ ret.value.quality_score = FInt(100)

\* C3: with more than max_columns columns, only the first max_columns are
\* profiled, and total_columns is still the column count of the loaded table.
C3_TotalColumnsCountsAll ==
    (ProfileSucceeded /\ Len(Frame.cols) > arg.max_columns) =>
        /\ Len(ret.value.column_profiles) = arg.max_columns
        /\ Len(ret.value.missing_summary) = arg.max_columns
        /\ ret.value.dataset_info.total_columns = Len(Frame.cols)

DatasetFailure == ~Loaded \/ Frame.rows = 0

\* C4: every report-producing entry point answers a dataset-level failure
\* (missing or unreadable resource, zero rows) with a returned report that has
\* success = false, an error string and zeroed metrics, and never raises.
C4_FailuresAreReports ==
    (/\ pc \in {"generate_full_profile", "generate_advanced_quality_report",
                "parse_csv_file", "analyze_data_quality"}
     /\ DatasetFailure) =>
        /\ ~ret.raised
        /\ {"success", "error", "dataset_info"} \subseteq DOMAIN ret.value
        /\ ret.value.success = FALSE
        /\ ret.value.dataset_info.total_rows = 0
        /\ ret.value.dataset_info.total_columns = 0

\* C5: profiling a table with zero rows, whatever its columns, returns
\* success = false, error "Dataset is empty", total_rows = 0 and
\* total_columns = 0, and profiles no column.
C5_EmptyDatasetProfile ==
    (pc = "generate_full_profile" /\ Loaded /\ Frame.rows = 0) =>
        /\ ~ret.raised
        /\ ret.value.success = FALSE
        /\ ret.value.error = "Dataset is empty"
        /\ ret.value.dataset_info = [total_rows |-> 0, total_columns |-> 0]
        /\ "column_profiles" \notin DOMAIN ret.value
        /\ "missing_summary" \notin DOMAIN ret.value

C5_Witness ==
    /\ pc = "generate_full_profile"
    /\ Loaded
    /\ Frame.rows = 0
    /\ Len(Frame.cols) = MaxCols
    /\ ret.value.error = "Dataset is empty"

\* C6: when the analysis of some columns fails, generate_full_profile and
\* generate_advanced_quality_report still return a (successful) report, and
\* every other column has the profile it has when no analysis fails.
C6_ColumnFailureIsolated ==
    /\ (pc = "generate_full_profile" /\ Loaded /\ ~IsEmpty(Frame) /\ arg.fails # {}) =>
           /\ ~ret.raised
           /\ ret.value.success
           /\ \A i \in 1..Len(ret.value.column_profiles) :
                  IF i \in arg.fails
                  THEN "error" \in DOMAIN ret.value.column_profiles[i]
                  ELSE ret.value.column_profiles[i] =
                           FullProfileOf(Frame, arg.max_columns, {}, arg.nf)
                               .column_profiles[i]
    /\ (pc = "generate_advanced_quality_report" /\ Loaded /\ arg.fails # {}) =>
           /\ ~ret.raised
           /\ Len(ret.value.column_quality) = Len(Frame.cols)
           /\ \A i \in 1..Len(Frame.cols) :
                  IF i \in arg.fails
                  THEN "error" \in DOMAIN ret.value.column_quality[i]
                  ELSE ret.value.column_quality[i] =
                           QualityReportOf(Frame, arg.column_metadata, {}, arg.nf)
                               .column_quality[i]

\* a profile of two columns, the first failed and the second profiled
C6_Witness ==
    /\ ProfileSucceeded
    /\ arg.fails = {1}
    /\ Len(ret.value.column_profiles) = 2
    /\ "error" \in DOMAIN ret.value.column_profiles[1]
    /\ "error" \notin DOMAIN ret.value.column_profiles[2]
    /\ ret.value.column_profiles[2].total_values > 0

\* the degraded entries of the returned report
FailedProfiles ==
    IF ProfileSucceeded
    THEN {ret.value.column_profiles[i] : i \in arg.fails}
    ELSE {}

FailedQualities ==
    IF QualityReturned
    THEN {ret.value.column_quality[i] : i \in arg.fails}
    ELSE {}

\* C7 as stated: the degraded profile of a failed column holds the column
\* name, an error marker and total_values = 0, and no other field.
C7_DegradedProfileBare ==
    \A p \in FailedProfiles \cup FailedQualities :
        /\ DOMAIN p = {"column_name", "error", "total_values"}
        /\ p.total_values = 0

\* C7 amended: the degraded profile holds the column name, an error marker and
\* total_values = 0, and besides them only placeholders: data_type "unknown"
\* and is_numeric false from profile_column, null_count 0 and
\* completeness_percentage 0.0 from analyze_column_quality.
C7_DegradedProfileShape ==
    /\ \A i \in (IF ProfileSucceeded THEN arg.fails ELSE {}) :
           LET p == ret.value.column_profiles[i]
           IN  /\ DOMAIN p =
                      {"column_name", "error", "total_values", "data_type", "is_numeric"}
               /\ p.column_name = ColumnNames[i]
               /\ p.total_values = 0
               /\ p.data_type = "unknown"
               /\ p.is_numeric = FALSE
    /\ \A i \in (IF QualityReturned THEN arg.fails ELSE {}) :
           LET p == ret.value.column_quality[i]
           IN  /\ DOMAIN p =
                      {"column_name", "error", "total_values", "null_count",
                       "completeness_percentage"}
               /\ p.column_name = ColumnNames[i]
               /\ p.total_values = 0
               /\ p.null_count = 0
               /\ p.completeness_percentage = FInt(0)

\* a failed column of a table that has rows: its degraded profile says
\* total_values = 0 and data_type "unknown"
C7_Witness ==
    /\ ProfileSucceeded
    /\ \E i \in arg.fails :
           /\ Len(Frame.cols[i]) > 0
           /\ ret.value.column_profiles[i].total_values = 0
           /\ ret.value.column_profiles[i].data_type = "unknown"

Clean(x) == ~NonFinite(x)
AllClean(s) == \A i \in 1..Len(s) : Clean(s[i])

CleanProfile(p) ==
    /\ ("statistics" \in DOMAIN p /\ p.statistics # None) =>
           \A k \in DOMAIN p.statistics : Clean(p.statistics[k])
    /\ ("histogram" \in DOMAIN p /\ p.histogram # None) =>
           /\ Clean(p.histogram.min)
           /\ Clean(p.histogram.max)
           /\ \A j \in 1..Len(p.histogram.bins) :
                  /\ Clean(p.histogram.bins[j].lower)
                  /\ Clean(p.histogram.bins[j].upper)
                  /\ Clean(p.histogram.bins[j].midpoint)
    /\ ("outliers" \in DOMAIN p /\ p.outliers # None) =>
           /\ \A k \in DOMAIN p.outliers \cap
                       {"lower_bound", "upper_bound", "q1", "q3", "iqr",
                        "outlier_percentage"} : Clean(p.outliers[k])
           /\ AllClean(p.outliers.outliers)
    /\ "value_counts" \in DOMAIN p =>
           \A j \in 1..Len(p.value_counts) : Clean(p.value_counts[j].percentage)

CleanQuality(q) ==
    /\ \A k \in DOMAIN q \cap
                {"null_percentage", "empty_percentage", "unique_percentage",
                 "completeness_percentage", "type_consistency_percentage"} : Clean(q[k])
    /\ ("numeric_stats" \in DOMAIN q /\ q.numeric_stats # None) =>
           \A k \in DOMAIN q.numeric_stats : Clean(q.numeric_stats[k])
    /\ ("outlier_info" \in DOMAIN q /\ q.outlier_info # None) =>
           /\ Clean(q.outlier_info.lower_bound)
           /\ Clean(q.outlier_info.upper_bound)
           /\ Clean(q.outlier_info.outlier_percentage)
           /\ AllClean(q.outlier_info.outliers)

CleanRecords(records) ==
    \A r \in 1..Len(records) :
        \A name \in DOMAIN records[r] : ~IsNonFiniteFloat(records[r][name])

\* C8: no nan and no infinite value is in any structure an entry point
\* returns: profile statistics, histogram edges, outlier bounds and examples,
\* quality metrics, preview records.
C8_NoNonFiniteValue ==
    /\ ProfileSucceeded =>
           /\ \A i \in 1..Len(ret.value.column_profiles) :
                  CleanProfile(ret.value.column_profiles[i])
           /\ \A i \in 1..Len(ret.value.missing_summary) :
                  /\ Clean(ret.value.missing_summary[i].missing_percentage)
                  /\ Clean(ret.value.missing_summary[i].present_percentage)
    /\ QualityReturned =>
           /\ Clean(ret.value.quality_score)
           /\ \A i \in 1..Len(ret.value.column_quality) :
                  CleanQuality(ret.value.column_quality[i])
    /\ (pc = "parse_csv_file" /\ ~ret.raised) => CleanRecords(ret.value.preview)
    /\ (pc = "get_preview_data" /\ ~ret.raised) => CleanRecords(ret.value)
    /\ (pc = "analyze_data_quality" /\ ~ret.raised) => Clean(ret.value.completeness_score)

\* the missing summaries the state holds, each with the frame it was made from
MissingSummaries ==
    IF pc = "get_missing_values_summary" THEN {[df |-> file.table, summary |-> ret.value]}
    ELSE IF ProfileSucceeded
         THEN {[df |-> FirstColumns(Frame, arg.max_columns),
                summary |-> ret.value.missing_summary]}
    ELSE {}

\* C9: in every entry of get_missing_values_summary, present_count +
\* null_count + empty_count is the number of values of the column, and
\* present_percentage + missing_percentage is within 0.01 of 100.
C9_MissingSummaryAccounts ==
    \A s \in MissingSummaries :
        /\ Len(s.summary) = Len(s.df.cols)
        /\ \A i \in 1..Len(s.summary) :
               LET m == s.summary[i]
                   total == FAdd(m.present_percentage, m.missing_percentage)
               IN  /\ m.present_count + m.null_count + m.empty_count = s.df.rows
                   /\ m.present_count >= 0
                   /\ FLe(Fin(9999, 100), total)
                   /\ FLe(total, Fin(10001, 100))

\* a column with a null, an empty string and a present value
C9_Witness ==
    /\ pc = "get_missing_values_summary"
    /\ \E i \in 1..Len(ret.value) :
           /\ ret.value[i].null_count > 0
           /\ ret.value[i].empty_count > 0
           /\ ret.value[i].present_count > 0
           /\ ret.value[i].present_percentage = Fin(3333, 100)

\* C10: a column with no value is reported 100% present and 0% missing
\* everywhere: by get_missing_values_summary, and by the
\* completeness_percentage of analyze_column_quality, so that it is never named
\* as a column with < 50% completeness.
C10_EmptyColumnIsComplete ==
    /\ (pc = "get_missing_values_summary" /\ file.table.rows = 0) =>
           \A i \in 1..Len(ret.value) :
               /\ ret.value[i].present_percentage = FInt(100)
               /\ ret.value[i].missing_percentage = FInt(0)
    /\ (QualityReturned /\ Frame.rows = 0) =>
           /\ \A i \in 1..Len(ret.value.column_quality) :
                  i \notin arg.fails =>
                      ret.value.column_quality[i].completeness_percentage = FInt(100)
           /\ arg.fails = {} =>
                  \A j \in 1..Len(ret.value.recommendations) :
                      ret.value.recommendations[j].rule # "low_completeness"

FrequenciesReturned == pc = "get_categorical_frequencies"

\* the non-null values of the series the call was made on
ValidSeries == dropna(file.table.cols[1])

\* the entries before any Other entry
Categories == LET named(e) == e.value # OtherValue IN SelectSeq(ret.value, named)

\* C11: for every series, top_n >= 0 and min_frequency >= 1, the counts of the
\* returned entries, the Other entry included, sum to the number of non-null
\* values of the series.
C11_CountsSumToNonNull ==
    FrequenciesReturned =>
        SeqSum([i \in 1..Len(ret.value) |-> ret.value[i].count]) = Len(ValidSeries)

\* the number of occurrences of a value among the non-null values
Occurrences(v) == LET is(x) == x = v IN Count(ValidSeries, is)

\* the values that occur at least min_frequency times
Frequent == {v \in Range(ValidSeries) : Occurrences(v) >= arg.min_frequency}

\* C12: before any Other entry come the top_n most frequent non-null values
\* among those with count >= min_frequency, in non-increasing order of count,
\* equal counts in natural value order, each with percentage
\* count / non-null total * 100 rounded to 2 decimals; [a,a,b,c,c,c] with
\* top_n = 2 gives (c,3,50.0), (a,2,33.33) and Other with 1 and 16.67.
C12_TopCategories ==
    FrequenciesReturned =>
        LET c == Categories
            n == Len(c)
        IN  /\ n = (IF Cardinality(Frequent) < arg.top_n
                    THEN Cardinality(Frequent) ELSE arg.top_n)
            /\ \A i \in 1..n :
                   /\ c[i].value \in Frequent
                   /\ c[i].count = Occurrences(c[i].value)
                   /\ c[i].percentage = Round2(100 * c[i].count, Len(ValidSeries))
                   /\ \A v \in Frequent \ {c[j].value : j \in 1..n} :
                          Occurrences(v) <= c[i].count
            /\ \A i \in 1..n, j \in 1..n :
                   i < j => \/ c[i].count > c[j].count
                            \/ c[i].count = c[j].count /\ c[i].value.v < c[j].value.v
            /\ (file.table.cols[1] = <<Category(1), Category(1), Category(2),
                                       Category(3), Category(3), Category(3)>>
                 /\ arg.top_n = 2 /\ arg.min_frequency = 1) =>
                   ret.value = <<[value |-> Category(3), count |-> 3,
                                  percentage |-> FInt(50)],
                                 [value |-> Category(1), count |-> 2,
                                  percentage |-> Fin(3333, 100)],
                                 [value |-> OtherValue, count |-> 1,
                                  percentage |-> Fin(1667, 100)]>>

HistogramReturned == pc = "generate_histogram_bins" /\ ~ret.raised

\* the non-null numeric values of the series the call was made on
NumericValues == NumericSeries(file.table.cols[1])

BinCountSum(h) == SeqSum([j \in 1..Len(h.bins) |-> h.bins[j].count])

\* C13: for every numeric series with a non-null value and every num_bins >= 1
\* the bin counts of generate_histogram_bins sum to the number of non-null
\* numeric values, which is the reported total_values; for a series with no
\* such value the bin list is empty, and nothing is raised.
C13_BinCountsSum ==
    pc = "generate_histogram_bins" =>
        /\ ~ret.raised
        /\ IF Len(NumericValues) = 0
           THEN ret.value.bins = <<>>
           ELSE /\ BinCountSum(ret.value) = Len(NumericValues)
                /\ "total_values" \in DOMAIN ret.value
                /\ ret.value.total_values = Len(NumericValues)

\* x and y differ by at most tol
Near(x, y, tol) == FLe(FSub(x, y), tol) /\ FLe(FSub(y, x), tol)

\* C14: for every non-empty set of non-null numeric values the histogram has
\* exactly num_bins bins of equal width, one after the other, the first lower
\* edge the minimum and the last upper edge the maximum of the column, each
\* midpoint the mean of its two edges (up to the rounding to 2 decimals); also
\* when all values are equal.
C14_BinsSpanMinMax ==
    (pc = "generate_histogram_bins" /\ Len(NumericValues) > 0) =>
        LET bins == ret.value.bins
            n == Len(bins)
            width(j) == FSub(bins[j].upper, bins[j].lower)
        IN  /\ n = arg.num_bins
            /\ bins[1].lower = Round2F(SeriesMin(NumericValues))
            /\ bins[n].upper = Round2F(SeriesMax(NumericValues))
            /\ \A j \in 1..n :
                   /\ Near(bins[j].midpoint,
                           FScale(1, 2, FAdd(bins[j].lower, bins[j].upper)), Fin(1, 100))
                   /\ Near(width(j), width(1), Fin(2, 100))
                   /\ j < n => bins[j].upper = bins[j + 1].lower

OutliersReturned ==
    pc \in {"detect_outliers_for_visualization", "detect_outliers_iqr"} /\ ~ret.raised

\* the p = pn / pd percentile of the non-null numeric values (all finite), by
\* linear interpolation: with h = (n - 1) * p, the value at rank floor(h) plus
\* the fraction of h times the step to the next value
Percentile(pn, pd) ==
    LET t == sort_values(NumericValues)
        n == Len(t)
        whole == ((n - 1) * pn) \div pd
        part == Fin((n - 1) * pn - whole * pd, pd)
        step == IF whole + 2 <= n THEN FSub(t[whole + 2], t[whole + 1]) ELSE FInt(0)
    IN  FAdd(t[whole + 1], Fin(part.n * step.n, part.d * step.d))

\* the values strictly below lo or strictly above hi
Outside(lo, hi) ==
    LET out(x) == FLt(x, lo) \/ FLt(hi, x) IN Count(NumericValues, out)

\* C15: both outlier detectors take Q1 and Q3 as the 25th and 75th percentiles
\* by linear interpolation over the sorted non-null numeric values, count as
\* outliers exactly the values strictly below Q1 - k * IQR or strictly above
\* Q3 + k * IQR, and report outlier_count / non-null count * 100; for
\* 1, ..., 9, 100 and k = 1.5: Q1 = 3.25, Q3 = 7.75, IQR = 4.5, bounds -3.5 and
\* 14.5, one outlier, 10.0 percent.
C15_IqrOutliers ==
    (OutliersReturned /\ Len(NumericValues) > 0) =>
        LET r == ret.value
            Q1 == Percentile(1, 4)
            Q3 == Percentile(3, 4)
            IQR == FSub(Q3, Q1)
            lo == FSub(Q1, FScale(arg.mn, arg.md, IQR))
            hi == FAdd(Q3, FScale(arg.mn, arg.md, IQR))
        IN  /\ AllFinite(NumericValues) =>
                   /\ r.outlier_count = Outside(lo, hi)
                   /\ r.outlier_percentage =
                          Round2(100 * r.outlier_count, Len(NumericValues))
                   /\ pc = "detect_outliers_iqr" =>
                          r.lower_bound = lo /\ r.upper_bound = hi
                   /\ pc = "detect_outliers_for_visualization" =>
                          /\ r.q1 = Round2F(Q1) /\ r.q3 = Round2F(Q3)
                          /\ r.iqr = Round2F(IQR)
                          /\ r.lower_bound = Round2F(lo)
                          /\ r.upper_bound = Round2F(hi)
            /\ pc = "detect_outliers_iqr" =>
                   r.outlier_count = Outside(r.lower_bound, r.upper_bound)
            /\ (file.table.cols[1] = TenValues /\ arg.mn = 3 /\ arg.md = 2) =>
                   /\ r.outlier_count = 1
                   /\ r.outlier_percentage = FInt(10)
                   /\ r.lower_bound = Fin(-7, 2) /\ r.upper_bound = Fin(29, 2)
                   /\ pc = "detect_outliers_for_visualization" =>
                          /\ r.q1 = Fin(13, 4) /\ r.q3 = Fin(31, 4) /\ r.iqr = Fin(9, 2)
                          /\ r.outliers = <<FInt(100)>>

\* the worked example: 1, ..., 9, 100 with the default multiplier has the one
\* outlier 100
C15_Witness ==
    /\ pc = "detect_outliers_for_visualization"
    /\ file.table.cols[1] = TenValues
    /\ arg.mn = 3 /\ arg.md = 2
    /\ ret.value.outlier_count = 1
    /\ ret.value.q1 = Fin(13, 4)

\* the interquartile range is positive: the reported one, or the one of the
\* finite values before rounding
PositiveIqr ==
    \/ FLt(FInt(0), ret.value.iqr)
    \/ AllFinite(NumericValues) /\ FLt(Percentile(1, 4), Percentile(3, 4))

\* C16: for every non-empty numeric series and every multiplier k >= 0, the
\* values detect_outliers_for_visualization reports (rounded to 2 decimals)
\* satisfy lower_bound <= q1 <= q3 <= upper_bound whenever IQR > 0.
C16_BoundsOrdered ==
    (pc = "detect_outliers_for_visualization" /\ Len(NumericValues) > 0 /\ PositiveIqr) =>
        /\ FLe(ret.value.lower_bound, ret.value.q1)
        /\ FLe(ret.value.q1, ret.value.q3)
        /\ FLe(ret.value.q3, ret.value.upper_bound)

\* the outliers of the finite non-null numeric values, in column order
OutlierValues ==
    LET Q1 == Percentile(1, 4)
        Q3 == Percentile(3, 4)
        reach == FScale(arg.mn, arg.md, FSub(Q3, Q1))
        out(x) == FLt(x, FSub(Q1, reach)) \/ FLt(FAdd(Q3, reach), x)
    IN  SelectSeq(NumericValues, out)

\* C17: the cap on the example values does not touch the count:
\* detect_outliers_for_visualization reports as outlier_count the number of all
\* outliers and as inliers_count the non-null count less outlier_count, and
\* the examples are the first min(outlier_count, 50) outliers in column order.
C17_CapLeavesCount ==
    pc = "detect_outliers_for_visualization" =>
        LET r == ret.value
            cap == IF r.outlier_count < VizExamples THEN r.outlier_count ELSE VizExamples
        IN  /\ r.inliers_count = Len(NumericValues) - r.outlier_count
            /\ Len(r.outliers) = cap
            /\ r.has_outliers = (r.outlier_count > 0)
            /\ (Len(NumericValues) > 0 /\ AllFinite(NumericValues)) =>
                   /\ r.outlier_count = Len(OutlierValues)
                   /\ \A i \in 1..cap : r.outliers[i] = Round2F(OutlierValues[i])

\* a series with 54 outliers, 50 of them listed
C17_Witness ==
    /\ pc = "detect_outliers_for_visualization"
    /\ file.table.cols[1] = Striped
    /\ ret.value.outlier_count > VizExamples
    /\ Len(ret.value.outliers) = VizExamples
    /\ ret.value.outliers[1] = FInt(0)
    /\ ret.value.outliers[2] = FInt(2)

RecommendationsReturned == pc = "_generate_recommendations"

\* the rules in the order the contract fixes
RuleOrder ==
    <<"missing_values", "outliers", "type_inconsistencies", "invalid_values",
      "low_completeness">>

Rank(rule) == CHOOSE k \in 1..Len(RuleOrder) : RuleOrder[k] = rule

\* the positions of the messages of a rule in the returned list
Messages(rule) == {i \in 1..Len(ret.value) : ret.value[i].rule = rule}

\* C18: the messages come in the order missing-values, outliers,
\* type-inconsistencies, invalid-values, low-completeness; each of the first
\* four is there exactly once iff its issues_summary count is > 0, carries
\* that count, and never follows a message of a later rule.
C18_RuleOrder ==
    RecommendationsReturned =>
        /\ \A k \in 1..4 :
               LET count == arg.issues_summary[RuleOrder[k]]
               IN  /\ Cardinality(Messages(RuleOrder[k])) = (IF count > 0 THEN 1 ELSE 0)
                   /\ \A i \in Messages(RuleOrder[k]) : ret.value[i].count = count
        /\ \A i \in 1..Len(ret.value), j \in 1..Len(ret.value) :
               (i < j /\ ret.value[i].rule # "good" /\ ret.value[j].rule # "good") =>
                   Rank(ret.value[i].rule) < Rank(ret.value[j].rule)

\* all five rules triggered, with different counts
C18_Witness ==
    /\ RecommendationsReturned
    /\ Len(ret.value) = 5
    /\ arg.issues_summary["missing_values"] = 1
    /\ arg.issues_summary["outliers"] = 2
    /\ ret.value[2] = Recommendation("outliers", 2, <<>>)
    /\ ret.value[5].rule = "low_completeness"

\* the columns of the input whose completeness_percentage is below 50, in order
LowColumns ==
    LET below(col) == FLt(col.completeness_percentage, FInt(50))
        reports == SelectSeq(arg.column_reports, below)
    IN  [i \in 1..Len(reports) |-> reports[i].column_name]

NothingTriggered ==
    /\ \A name \in DOMAIN arg.issues_summary : arg.issues_summary[name] = 0
    /\ LowColumns = <<>>

\* C19: the list is never empty; it is the single 'quality is good' message
\* iff no rule triggered (the four counts are 0 and no column has
\* completeness_percentage < 50), and that message never comes with another.
C19_GoodMessageAlone ==
    RecommendationsReturned =>
        /\ Len(ret.value) >= 1
        /\ NothingTriggered <=> ret.value = <<Recommendation("good", 0, <<>>)>>
        /\ Messages("good") # {} => Len(ret.value) = 1

\* columns at exactly 50 and no issue: the good message
C19_Witness ==
    /\ RecommendationsReturned
    /\ Len(arg.column_reports) = MaxReports
    /\ ret.value = <<Recommendation("good", 0, <<>>)>>

\* C20: the low-completeness message is there iff some column has
\* completeness_percentage < 50, and names the first min(3, n) of the n such
\* columns in table order, never a column at 50 or more.
C20_LowCompletenessNames ==
    RecommendationsReturned =>
        /\ Cardinality(Messages("low_completeness")) = (IF LowColumns # <<>> THEN 1 ELSE 0)
        /\ \A i \in Messages("low_completeness") :
               ret.value[i].columns =
                   SubSeq(LowColumns, 1, IF Len(LowColumns) < 3 THEN Len(LowColumns) ELSE 3)

\* four columns, the second at 50: the message names the first, third, fourth
C20_Witness ==
    /\ RecommendationsReturned
    /\ Len(arg.column_reports) = 4
    /\ arg.column_reports[2].completeness_percentage = FInt(50)
    /\ \E i \in Messages("low_completeness") : ret.value[i].columns = <<"a", "c", "d">>

\* the value of a key of a column report, 0 when the report has no such key
Field(col, key) == IF key \in DOMAIN col THEN col[key] ELSE 0

\* the outlier_count a column report carries, 0 when it has no outlier_info
ReportedOutliers(col) ==
    IF "outlier_info" \in DOMAIN col /\ col.outlier_info # None
    THEN col.outlier_info.outlier_count
    ELSE 0

\* C21: in the report of generate_advanced_quality_report, missing_values is
\* the sum over the columns of null_count + empty_string_count, invalid_values
\* the sum of invalid_count, outliers the sum of outlier_count over the numeric
\* columns (the other columns carry none), and type_inconsistencies the number
\* of columns whose type_consistent is false.
C21_IssuesSummarySums ==
    QualityReturned =>
        LET q == ret.value.column_quality
            s == ret.value.issues_summary
            n == Len(q)
            numeric == {i \in 1..n : is_numeric_dtype(Frame.cols[i])}
        IN  /\ n = Len(Frame.cols)
            /\ s.missing_values =
                   SeqSum([i \in 1..n |-> q[i].null_count + Field(q[i], "empty_string_count")])
            /\ s.invalid_values = SeqSum([i \in 1..n |-> Field(q[i], "invalid_count")])
            /\ s.outliers =
                   SeqSum([i \in 1..n |-> IF i \in numeric THEN ReportedOutliers(q[i]) ELSE 0])
            /\ \A i \in (1..n) \ numeric : ReportedOutliers(q[i]) = 0
            /\ s.type_inconsistencies =
                   Cardinality({i \in 1..n : "type_consistent" \in DOMAIN q[i]
                                                /\ ~q[i].type_consistent})

\* a table with a text column and a null beside a numeric column: missing and
\* invalid cells and a type inconsistency are all counted
C21_Witness ==
    /\ QualityReturned
    /\ Len(ret.value.column_quality) = 2
    /\ ret.value.issues_summary.missing_values = 1
    /\ ret.value.issues_summary.invalid_values = 1
    /\ ret.value.issues_summary.type_inconsistencies = 1
    /\ \E i \in 1..2 :
           /\ "outlier_info" \in DOMAIN ret.value.column_quality[i]
           /\ ret.value.column_quality[i].outlier_info # None

\* the columns of the returned report whose analysis did not fail
Analysed == {i \in 1..Len(ret.value.column_quality) : i \notin arg.fails}

\* the expected types column_metadata supplies for column i
Supplied(i) ==
    {m.data_type : m \in {e \in Range(arg.column_metadata) : e.column_name = ColumnNames[i]}}

\* C22 as stated: type_consistent is true iff no expected type was supplied or
\* the expected type is exactly the inferred type string.
C22_ExactTextMatch ==
    QualityReturned =>
        \A i \in Analysed :
            ret.value.column_quality[i].type_consistent
                <=> (Supplied(i) = {} \/ Supplied(i) = {dtype(Frame.cols[i])})

\* the columns whose supplied expected type is a non-empty string other than
\* the inferred type
Mismatched ==
    {i \in Analysed : \E t \in Supplied(i) : t # "" /\ t # dtype(Frame.cols[i])}

\* C22: analyze_column_quality sets type_consistent to true iff no expected
\* type was supplied, the supplied one is the empty string, or it is exactly
\* the inferred type string; every other supplied type yields false and adds
\* one to type_inconsistencies.
C22_TypeConsistent ==
    QualityReturned =>
        /\ \A i \in Analysed : ret.value.column_quality[i].type_consistent <=> i \notin Mismatched
        /\ ret.value.issues_summary.type_inconsistencies = Cardinality(Mismatched)

\* expected "int64" against inferred "float64": one inconsistency
C22_Witness ==
    /\ QualityReturned
    /\ \E i \in Analysed :
           /\ Supplied(i) = {"int64"}
           /\ ret.value.column_quality[i].inferred_type = "float64"
           /\ ~ret.value.column_quality[i].type_consistent
    /\ ret.value.issues_summary.type_inconsistencies = 1

DataQualityReturned == pc = "analyze_data_quality" /\ ~ret.raised

\* row r of the loaded frame, as the tuple of its cells
RowOf(r) == [i \in 1..Len(Frame.cols) |-> Frame.cols[i][r]]

\* C23: duplicate_rows of analyze_data_quality is the number of rows equal in
\* every column to an earlier row: each group of k identical rows contributes
\* k - 1, so it is total_rows minus the number of distinct rows, and
\* 0 <= duplicate_rows <= max(total_rows - 1, 0).
C23_DuplicateRows ==
    DataQualityReturned =>
        LET d == ret.value.duplicate_rows
            rows == ret.value.total_rows
        IN  /\ rows = Frame.rows
            /\ d = rows - Cardinality({RowOf(r) : r \in 1..rows})
            /\ d = Cardinality({r \in 1..rows : \E q \in 1..(r - 1) : RowOf(q) = RowOf(r)})
            /\ 0 <= d
            /\ d <= (IF rows >= 1 THEN rows - 1 ELSE 0)

\* three rows, the first and the last identical with a different row between
C23_Witness ==
    /\ DataQualityReturned
    /\ ret.value.total_rows = 3
    /\ RowOf(1) = RowOf(3)
    /\ RowOf(1) # RowOf(2)
    /\ ret.value.duplicate_rows = 1

\* the key is in the profile with a value other than None
\* the field is there and holds a value, record or list, other than None
Populated(p, key) == key \in DOMAIN p /\ ToString(p[key]) # ToString(None)

NumericFields == {"statistics", "histogram", "outliers"}

\* C24: every column profile produced without error has exactly one field
\* group populated: a numeric column has statistics, histogram and outliers
\* and no value_counts, a categorical column has value_counts and none of the
\* numeric fields; a numeric column whose values are all null included.
C24_OneFieldGroup ==
    ProfileSucceeded =>
        \A i \in 1..Len(ret.value.column_profiles) :
            LET p == ret.value.column_profiles[i]
            IN  "error" \notin DOMAIN p =>
                    IF p.is_numeric
                    THEN /\ \A key \in NumericFields : Populated(p, key)
                         /\ "value_counts" \notin DOMAIN p
                    ELSE /\ Populated(p, "value_counts")
                         /\ \A key \in NumericFields : key \notin DOMAIN p

Sanitized == pc \in {"_sanitize_records", "_sanitize_records twice"}

\* the result is the input with its non-finite floats replaced by None:
\* as many records, in the same order, with the same keys
SanitizedFrom(records, result) ==
    /\ Len(result) = Len(records)
    /\ \A r \in 1..Len(records) :
           /\ DOMAIN result[r] = DOMAIN records[r]
           /\ \A key \in DOMAIN records[r] :
                  /\ result[r][key] = NoneCell
                         <=> records[r][key] \in {NullCell, InfCell, NegInfCell, NoneCell}
                  /\ records[r][key] \notin {NullCell, InfCell, NegInfCell}
                         => result[r][key] = records[r][key]

\* C25: _sanitize_records returns as many records in the same order with the
\* same keys; a value becomes None iff it is a float nan, inf or -inf, every
\* other value is returned unchanged; sanitising the result again returns it
\* unchanged, and the input records are never modified.
C25_SanitizeRecords ==
    /\ [](Sanitized => SanitizedFrom(arg.records, ret.value))
    /\ [][arg' = arg /\ (pc' = "_sanitize_records twice" => ret' = ret)]_vars

\* two records holding nan, inf, -inf and a number, sanitised twice
C25_Witness ==
    /\ pc = "_sanitize_records twice"
    /\ arg.records = <<[a |-> NullCell, b |-> InfCell], [a |-> NegInfCell, b |-> NumCell(1)]>>
    /\ ret.value = <<[a |-> NoneCell, b |-> NoneCell], [a |-> NoneCell, b |-> NumCell(1)]>>

BothScored == pc = "quality_score"

\* the cells only the quality score penalises
BadCells == arg.empty_strings + arg.invalid_values

\* C29 as stated: completeness_score >= quality_score, with equality iff the
\* table has no empty-string and no invalid cell.
C29_EqualIffNoBadCell ==
    BothScored =>
        /\ FLe(ret.value.quality_score, ret.value.completeness_score)
        /\ ret.value.quality_score = ret.value.completeness_score <=> BadCells = 0

\* C29: for one table in which no column analysis fails, completeness_score
\* of analyze_data_quality is >= quality_score of
\* generate_advanced_quality_report; they are equal when the table has no
\* empty-string and no invalid cell, and otherwise only when both round to
\* the same 2 decimals, which needs at least 10000 cells per such cell.
C29_CompletenessAtLeastQuality ==
    BothScored =>
        /\ FLe(ret.value.quality_score, ret.value.completeness_score)
        /\ BadCells = 0 => ret.value.quality_score = ret.value.completeness_score
        /\ (BadCells > 0 /\ ret.value.quality_score = ret.value.completeness_score)
               => 10000 * BadCells <= arg.total_rows * arg.total_columns

\* 30000 cells, one of them invalid: both scores are 100.0
C29_Witness ==
    /\ BothScored
    /\ arg.total_rows * arg.total_columns = 30000
    /\ arg.null_cells = 0
    /\ arg.empty_strings = 0
    /\ arg.invalid_values = 1
    /\ ret.value.completeness_score = FInt(100)
    /\ ret.value.quality_score = FInt(100)

\* what detect_outliers_for_visualization returns for the series, multiplier
\* and library behaviour of the detect_outliers_iqr call
Visualized ==
    detect_outliers_for_visualization(file.table.cols[1], arg.mn, arg.md, arg.nf)

UploadReturned == pc = "return"
UploadRaised == pc = "raise"

\* the rows of the three tables that were not there when the request began
CreatedRows ==
    [datasets |-> file.db.datasets \ arg.db.datasets,
     dataset_columns |-> file.db.dataset_columns \ arg.db.dataset_columns,
     quality_reports |-> file.db.quality_reports \ arg.db.quality_reports]

\* C26: upload_dataset is all-or-nothing. An upload answered 201 has its
\* stored file, its dataset row, one column-metadata row per parsed column and
\* one quality report; an upload one of whose steps failed is answered 500
\* and leaves no dataset, column-metadata or quality-report row of its own
\* and no uploaded file on disk.
C26_AllOrNothing ==
    /\ UploadReturned =>
          /\ ret.status = 201
          /\ ret.file_path \in DOMAIN file.disk
          /\ CreatedRows.datasets = {ret.dataset}
          /\ {c.column_index : c \in CreatedRows.dataset_columns}
                 = 0..(ret.parse_result.column_count - 1)
          /\ Cardinality(CreatedRows.dataset_columns) = ret.parse_result.column_count
          /\ \A c \in CreatedRows.dataset_columns : c.dataset_id = ret.dataset.id
          /\ Cardinality(CreatedRows.quality_reports) = 1
          /\ \A q \in CreatedRows.quality_reports : q.dataset_id = ret.dataset.id
    /\ UploadRaised =>
          /\ ret.status = 500
          /\ CreatedRows.datasets = {}
          /\ CreatedRows.dataset_columns = {}
          /\ CreatedRows.quality_reports = {}
          /\ UploadPath \notin DOMAIN file.disk

\* a dataset route has answered the request in arg
Answered == pc # "idle"

\* the request carries a token that login issued and that has not expired
ValidToken ==
    /\ arg.credentials.scheme = "bearer"
    /\ arg.credentials.credentials.key = SECRET_KEY
    /\ ~arg.credentials.credentials.expired
    /\ {"sub", "role"} \subseteq DOMAIN arg.credentials.credentials.payload

\* the user the token was issued to, and the role it carries
Caller ==
    (CHOOSE u \in Registered :
        ToString(u.id) = arg.credentials.credentials.payload.sub).id

CallerRole == arg.credentials.credentials.payload.role

\* the dataset the request names, when there is one
Named == {d \in file.db.datasets : d.id = arg.dataset_id}

OneDatasetRoutes ==
    {"get_dataset", "get_dataset_detail", "get_dataset_preview", "get_quality_report"}

\* C27: a request without a valid token is rejected with 401 or 403 on every
\* dataset route and receives nothing. A non-admin caller is answered 403 by
\* get_dataset, get_dataset_detail, get_dataset_preview and
\* get_quality_report for a dataset of another user, whatever these routes
\* return to the caller belongs to a dataset of the caller, and the listing
\* holds exactly the caller's datasets. An admin's listings hold the
\* datasets of all users.
C27_AccessControl ==
    Answered =>
        /\ ~ValidToken => ret.status \in {401, 403} /\ ret.body = None
        /\ ret.status \notin {200, 201} => ret.body = None
        /\ ValidToken /\ CallerRole # "admin" =>
              /\ pc \in OneDatasetRoutes /\ (\E d \in Named : d.user_id # Caller)
                     => ret.status = 403
              /\ pc \in OneDatasetRoutes /\ ret.status = 200
                     => \A d \in Named : d.user_id = Caller
              /\ pc = "get_dataset" /\ ret.status = 200 => ret.body \in Named
              /\ pc = "get_dataset_detail" /\ ret.status = 200 =>
                     /\ ret.body.dataset \in Named
                     /\ \A c \in ret.body.columns : c.dataset_id = arg.dataset_id
                     /\ ret.body.quality_report # None
                            => ret.body.quality_report.dataset_id = arg.dataset_id
              /\ pc = "get_dataset_preview" /\ ret.status = 200 =>
                     \A r \in 1..Len(ret.body.rows) :
                         \A key \in DOMAIN ret.body.rows[r] :
                             ret.body.rows[r][key] = NumCell(Caller)
              /\ pc = "get_quality_report" /\ ret.status = 200 =>
                     ret.body.dataset_id = arg.dataset_id
              /\ pc = "get_datasets" =>
                     /\ ret.status = 200
                     /\ ret.body = {d \in file.db.datasets : d.user_id = Caller}
              /\ pc = "get_all_datasets_admin" => ret.status = 403
              /\ pc = "create_dataset" /\ ret.status = 201 => ret.body.user_id = Caller
        /\ ValidToken /\ CallerRole = "admin"
           /\ pc \in {"get_datasets", "get_all_datasets_admin"} =>
              /\ ret.status = 200
              /\ {[id |-> r.id, user_id |-> r.user_id] : r \in ret.body}
                     = {[id |-> d.id, user_id |-> d.user_id] : d \in file.db.datasets}

\* a user asked for the detail of another user's dataset and was refused
C27_Witness ==
    /\ pc = "get_dataset_detail"
    /\ ValidToken
    /\ CallerRole = "user"
    /\ \E d \in Named : d.user_id # Caller /\ d.file_path # NullPath
    /\ ret.status = 403

\* the registration requests that have been answered
RegAnswered == {p \in Registrations : pc[p] \in {"return", "raise"}}

\* no two rows of the users table share an email or a username
UniqueUsers ==
    \A u, v \in file.rows : u.email = v.email \/ u.username = v.username => u = v

\* C28: no two user rows share an email or a username, whatever the order
\* in which the statements of the register requests run; a request whose
\* email or username was registered when it arrived is answered 400; a
\* request answered 400 or 500 leaves the users table as it was, and only a
\* request answered 201 adds a row, which carries its email and username.
C28_UniqueUsers ==
    /\ [](/\ UniqueUsers
          /\ \A p \in RegAnswered :
                 /\ ret[p].registered => ret[p].status = 400
                 /\ ret[p].status \in {201, 400, 500}
                 /\ ret[p].status = 201 <=> ret[p].user \in file.rows
                 /\ ret[p].status = 201 =>
                        /\ ret[p].user.email = arg[p].email
                        /\ ret[p].user.username = arg[p].username)
    /\ [][/\ \A p \in Registrations :
                 pc[p] # "raise" /\ pc'[p] = "raise" => file' = file
          /\ file' # file =>
                 \E p \in Registrations :
                     /\ pc[p] # "return" /\ pc'[p] = "return"
                     /\ ret[p].user \notin file.rows
                     /\ file'.rows = file.rows \cup {ret'[p].user}]_vars

\* two requests for one email both found it free; one was answered 201 and
\* the INSERT of the other was refused
C28_Witness ==
    \E p, q \in Registrations :
        /\ p # q
        /\ arg[p].email = arg[q].email
        /\ arg[p].username # arg[q].username
        /\ ret[p].status = 201
        /\ ret[q].status = 500
        /\ Cardinality(file.rows) = 1

====
